---------------------------- MODULE Spec2Model ----------------------------
(***************************************************************************)
(* ShinySDR APRS plugin: the TNC2 line decoder (parse_tnc2 and its         *)
(* sub-decoders), the station entity (APRSStation), the dispatch of        *)
(* decoded messages into the telemetry store (expand_aprs_message), the    *)
(* list objects of concurrent parse_tnc2 calls, the APRS-IS component      *)
(* with its reader thread (_APRSISComponent), and the multimon-ng APRS     *)
(* demodulator with its process protocol (APRSDemodulator).                *)
(*                                                                         *)
(* Text is a sequence of one-character strings.  A number is a record      *)
(* [n, d, b, e, o] standing for (n/d) * P, where P = 1 when b = 0 and      *)
(* P = (b/1000)^e + o otherwise, so that the floating-point powers of the  *)
(* compressed formats are kept exactly.                                    *)
(***************************************************************************)
EXTENDS Integers, Sequences, FiniteSets, TLC

VARIABLES store,   \* the telemetry store: object id -> APRSStation state
          prev,    \* the store as it was before the last operation
          msg,     \* the outcome of the last operation: kind, message, exception
          steps,   \* number of operations performed so far
          heap,    \* the list objects parse_tnc2 calls have created, by identity
          calls,   \* the parse_tnc2 calls in progress and the messages returned
          aprsis,  \* _APRSISComponent: __alive, the reader thread, the reactor's calls
          multimon \* APRSDemodulator: squelch mode, router matrix, and its protocol

vars == <<store, prev, msg, steps, heap, calls, aprsis, multimon>>

-----------------------------------------------------------------------------
(* Characters *)

\* U+FFFD, what unicode(line, 'ascii', 'replace') puts for a byte >= 0x80.
Repl == "U+FFFD"

\* The grave accent (code 96), the first of the two Mic-E data type identifiers.
Grave == "U+0060"

Ascii ==
  << " ", "!", "\"", "#", "$", "%", "&", "'", "(", ")", "*", "+", ",", "-", ".", "/",
     "0", "1", "2", "3", "4", "5", "6", "7", "8", "9", ":", ";", "<", "=", ">", "?",
     "@", "A", "B", "C", "D", "E", "F", "G", "H", "I", "J", "K", "L", "M", "N", "O",
     "P", "Q", "R", "S", "T", "U", "V", "W", "X", "Y", "Z", "[", "\\", "]", "^", "_",
     Grave, "a", "b", "c", "d", "e", "f", "g", "h", "i", "j", "k", "l", "m", "n", "o",
     "p", "q", "r", "s", "t", "u", "v", "w", "x", "y", "z", "{", "|", "}", "~" >>

CharSet == {Ascii[i] : i \in 1..Len(Ascii)} \cup {Repl}

OrdTable == [c \in CharSet |->
               IF c = Repl THEN 65533
               ELSE 31 + (CHOOSE i \in 1..Len(Ascii) : Ascii[i] = c)]

Ord(c) == OrdTable[c]

Digits == {"0", "1", "2", "3", "4", "5", "6", "7", "8", "9"}

IsDigit(c) == c \in Digits

AllDigits(s) == \A i \in 1..Len(s) : IsDigit(s[i])

\* int() of a string of ASCII digits
RECURSIVE ToInt(_)
ToInt(s) ==
  IF Len(s) = 0 THEN 0
  ELSE ToInt(SubSeq(s, 1, Len(s) - 1)) * 10 + (Ord(s[Len(s)]) - 48)

\* s[from:] of Python, with 1-based from
Drop(s, k) == SubSeq(s, k + 1, Len(s))

\* s[:k]
Take(s, k) == SubSeq(s, 1, k)

\* least index >= from whose character is in set, Len(s)+1 when there is none
FirstIn(s, set, from) ==
  IF \E i \in from..Len(s) : s[i] \in set
  THEN CHOOSE i \in from..Len(s) :
         s[i] \in set /\ \A j \in from..(i - 1) : s[j] \notin set
  ELSE Len(s) + 1

StartsWith(s, p) == Len(s) >= Len(p) /\ Take(s, Len(p)) = p

-----------------------------------------------------------------------------
(* Numbers *)

RECURSIVE GCD(_, _)
GCD(a, b) == IF b = 0 THEN a ELSE GCD(b, a % b)

Abs(x) == IF x < 0 THEN -x ELSE x

\* the float n/d (d > 0), in lowest terms so that equal floats are equal records
Rat(n, d) ==
  LET g == GCD(Abs(n), d)
  IN [n |-> n \div g, d |-> d \div g, b |-> 0, e |-> 0, o |-> 0]

\* float('inf'), float('-inf') and float('nan')
Inf(sign) == [n |-> sign, d |-> 0, b |-> 0, e |-> 0, o |-> 0]

NaN == [n |-> 0, d |-> 0, b |-> 0, e |-> 0, o |-> 0]

\* (b/1000) ** e + o
Pow(b, e, o) == [n |-> 1, d |-> 1, b |-> b, e |-> e, o |-> o]

\* v * p / q
Scale(v, p, q) ==
  LET r == Rat(v.n * p, v.d * q) IN [v EXCEPT !.n = r.n, !.d = r.d]

\* 1.08 ** e overflows a double (OverflowError) from this exponent on:
\* 1.08^9222 < 1.797e308 < 1.08^9223
Overflow108 == 9223

\* 1.002 ** e overflows a double from this exponent on
Overflow1002 == 355246

-----------------------------------------------------------------------------
(* Constants of the plugin *)

drop_unheard_timeout_seconds == 1800

\* Option values: None is <<>>, a present value x is <<x>>.
None == <<>>

Some(x) == <<x>>

-----------------------------------------------------------------------------
(* Facts *)

Capabilities(caps) == [type |-> "Capabilities", capabilities |-> caps]

Altitude(value, feet) == [type |-> "Altitude", value |-> value, feet_not_meters |-> feet]

Messaging(supported) == [type |-> "Messaging", supported |-> supported]

ObjectItemReport(object, name, live, facts) ==
  [type |-> "ObjectItemReport", object |-> object, name |-> name,
   live |-> live, facts |-> facts]

KillObject == [type |-> "KillObject"]

Position(lat, lon) == [type |-> "Position", latitude |-> lat, longitude |-> lon]

RadioRange(miles) == [type |-> "RadioRange", miles |-> miles]

Telemetry(channel, value) == [type |-> "Telemetry", channel |-> channel, value |-> value]

Status(text) == [type |-> "Status", text |-> text]

Symbol(id) == [type |-> "Symbol", id |-> id]

Timestamp(time) == [type |-> "Timestamp", time |-> time]

Velocity(speed, course) ==
  [type |-> "Velocity", speed_knots |-> speed, course_degrees |-> course]

APRSMessage(receive_time, source, destination, via, payload, facts, errors, comment) ==
  [receive_time |-> receive_time, source |-> source, destination |-> destination,
   via |-> via, payload |-> payload, facts |-> facts, errors |-> errors,
   comment |-> comment]

-----------------------------------------------------------------------------
(* Leaf decoders *)

\* Outcome with the returned text left empty
Outcome_CommentDropped(facts, errors, comment, raised) ==
  [facts |-> facts, errors |-> errors, comment |-> <<>>, raised |-> raised]

\* A decoder's outcome: the facts and errors lists as it leaves them, the text
\* it returns, and the exception it raised ("" when it returned normally).
Outcome(facts, errors, comment, raised) ==
  [facts |-> facts, errors |-> errors, comment |-> comment, raised |-> raised]

\* An error string: a fixed text, followed by the characters of what it quotes.
Err(text, quoted) == <<text>> \o quoted

RECURSIVE _parse_base91(_)
_parse_base91(text) ==
  IF Len(text) = 0 THEN 0
  ELSE _parse_base91(Take(text, Len(text) - 1)) * 91 + Ord(text[Len(text)]) - 33

_parse_symbol(facts, symbol) == Append(facts, Symbol(symbol))

\* minutes.replace(' ', '0') followed by the digits' value, for one character
MinuteDigit(c) == IF c = " " THEN 0 ELSE Ord(c) - 48

_parse_angle(angle_str) ==
  LET k == Len(angle_str) - 6 IN
  IF k \notin 1..3 THEN None
  ELSE
    LET degrees == Take(angle_str, k)
        minutes == SubSeq(angle_str, k + 1, k + 5)
        direction == angle_str[Len(angle_str)]
        ok == /\ AllDigits(degrees)
              /\ \A i \in {1, 2, 4, 5} : minutes[i] \in Digits \cup {" "}
              /\ minutes[3] = "."
              /\ direction \in {"N", "E", "S", "W"}
        sign == IF direction = "S" \/ direction = "W" THEN -1 ELSE 1
        hundredths == MinuteDigit(minutes[1]) * 1000 + MinuteDigit(minutes[2]) * 100
                      + MinuteDigit(minutes[4]) * 10 + MinuteDigit(minutes[5])
    IN IF ok THEN Some(Rat(sign * (ToInt(degrees) * 6000 + hundredths), 6000))
       ELSE None

\* position of the first match of /A=(\d{6}) in comment, 0 when there is none
AltitudeAt(comment) ==
  LET hit(i) == /\ SubSeq(comment, i, i + 2) = <<"/", "A", "=">>
                /\ AllDigits(SubSeq(comment, i + 3, i + 8))
      places == {i \in 1..(Len(comment) - 8) : hit(i)}
  IN IF places = {} THEN 0 ELSE CHOOSE i \in places : \A j \in places : i <= j

_parse_comment_altitude(facts, errors, comment) ==
  LET i == AltitudeAt(comment) IN
  IF i = 0 THEN Outcome(facts, errors, comment, "")
  ELSE Outcome(Append(facts, Altitude(Rat(ToInt(SubSeq(comment, i + 3, i + 8)), 1), TRUE)),
               errors,
               Take(comment, i - 1) \o Drop(comment, i + 8),
               "")

\* _parse_data_extension trying the area object pattern before course/speed
_parse_data_extension_AreaFirst(facts, errors, data, symbol) ==
  LET d(i) == IsDigit(data[i])
      rest == Drop(data, 7)
  IN
  IF Len(data) < 7 THEN Outcome(facts, errors, data, "")
  ELSE IF d(1) /\ d(2) /\ d(3) /\ data[4] \in {"/", "1"} /\ d(5) /\ d(6) /\ d(7)
  THEN Outcome(facts, Append(errors, Err("Area object not implemented", <<>>)), rest, "")
  ELSE IF Take(data, 3) = <<"P", "H", "G">> /\ d(4) /\ d(5) /\ d(6) /\ d(7)
  THEN Outcome(facts, Append(errors, Err("PHG parsing not implemented", <<>>)), rest, "")
  ELSE IF Take(data, 3) = <<"R", "N", "G">> /\ d(4) /\ d(5) /\ d(6) /\ d(7)
  THEN Outcome(Append(facts, RadioRange(Rat(ToInt(SubSeq(data, 4, 7)), 1))),
               errors, rest, "")
  ELSE IF Take(data, 3) = <<"D", "F", "S">> /\ d(4) /\ d(5) /\ d(6) /\ d(7)
  THEN Outcome(facts, Append(errors, Err("DFS parsing not implemented", <<>>)), rest, "")
  ELSE Outcome(facts, errors, data, "")

_parse_data_extension(facts, errors, data, symbol) ==
  LET d(i) == IsDigit(data[i])
      rest == Drop(data, 7)
  IN
  IF Len(data) < 7 THEN Outcome(facts, errors, data, "")
  ELSE IF d(1) /\ d(2) /\ d(3) /\ data[4] = "/" /\ d(5) /\ d(6) /\ d(7)
          /\ symbol # <<"\\", "l">>
  THEN Outcome(Append(facts, Velocity(Rat(ToInt(SubSeq(data, 5, 7)), 1),
                                      Rat(ToInt(SubSeq(data, 1, 3)), 1))),
               errors, rest, "")
  ELSE IF Take(data, 3) = <<"P", "H", "G">> /\ d(4) /\ d(5) /\ d(6) /\ d(7)
  THEN Outcome(facts, Append(errors, Err("PHG parsing not implemented", <<>>)), rest, "")
  ELSE IF Take(data, 3) = <<"R", "N", "G">> /\ d(4) /\ d(5) /\ d(6) /\ d(7)
  THEN Outcome(Append(facts, RadioRange(Rat(ToInt(SubSeq(data, 4, 7)), 1))),
               errors, rest, "")
  ELSE IF Take(data, 3) = <<"D", "F", "S">> /\ d(4) /\ d(5) /\ d(6) /\ d(7)
  THEN Outcome(facts, Append(errors, Err("DFS parsing not implemented", <<>>)), rest, "")
  ELSE IF d(1) /\ d(2) /\ d(3) /\ data[4] \in {"/", "1"} /\ d(5) /\ d(6) /\ d(7)
  THEN Outcome(facts, Append(errors, Err("Area object not implemented", <<>>)), rest, "")
  ELSE Outcome(facts, errors, data, "")

\* comptype_bits & 0b11000 == 0b10000, for a Python integer of either sign
IsCompressedAltitude(comptype_bits) == (comptype_bits \div 8) % 4 = 2

\* the uncompressed branch of _parse_position_and_symbol once both angles are parsed
PositionFacts(facts, plat, plon) ==
  IF plat # None /\ plon # None
  THEN Append(facts, Position(plat[1], plon[1]))
  ELSE facts

\* PositionErrors with one error for each angle that does not parse
PositionErrors_PerAngle(errors, lat, lon, plat, plon) ==
  (IF plat # None THEN errors
   ELSE Append(errors, Err("lat/lon does not parse: ", lat \o <<",">> \o lon)))
  \o (IF plon # None THEN <<>>
      ELSE <<Err("lat/lon does not parse: ", lat \o <<",">> \o lon)>>)

PositionErrors(errors, lat, lon, plat, plon) ==
  IF plat # None /\ plon # None
  THEN errors
  ELSE Append(errors, Err("lat/lon does not parse: ", lat \o <<",">> \o lon))

\* the last statement of the uncompressed branch, on the data extension's outcome
AfterExtension(ext) == _parse_comment_altitude(ext.facts, ext.errors, ext.comment)

\* the compressed branch of _parse_position_and_symbol from the comptype test on
CompressedExtension(facts1, errors, c, s, comptype_bits, comment) ==
  IF IsCompressedAltitude(comptype_bits)
  THEN IF _parse_base91(<<c, s>>) >= Overflow1002
       THEN Outcome(facts1, errors, comment, "OverflowError")
       ELSE Outcome(Append(facts1, Altitude(Pow(1002, _parse_base91(<<c, s>>), 0), TRUE)),
                    errors, comment, "")
  ELSE IF c = " " THEN Outcome(facts1, errors, comment, "")
  ELSE IF c = "{"
  THEN IF _parse_base91(<<s>>) >= Overflow108
       THEN Outcome(facts1, errors, comment, "OverflowError")
       ELSE Outcome(Append(facts1, RadioRange(Pow(1080, _parse_base91(<<s>>), 0))),
                    errors, comment, "")
  ELSE IF 0 <= _parse_base91(<<c>>) /\ _parse_base91(<<c>>) <= 89
  THEN IF _parse_base91(<<s>>) >= Overflow108
       THEN Outcome(facts1, errors, comment, "OverflowError")
       ELSE Outcome(Append(facts1, Velocity(Pow(1080, _parse_base91(<<s>>), -1),
                                            Rat(_parse_base91(<<c>>) * 4, 1))),
                    errors, comment, "")
  ELSE Outcome(facts1, errors, comment, "")

\* CompressedLatitude with the divisor of the longitude
CompressedLatitude_LongitudeScale(lat) == Rat(90 * 190463 - _parse_base91(lat), 190463)

\* the latitude and longitude of a compressed position
CompressedLatitude(lat) == Rat(90 * 380926 - _parse_base91(lat), 380926)

CompressedLongitude(lon) == Rat(_parse_base91(lon) - 180 * 190463, 190463)

_parse_position_and_symbol(facts, errors, data) ==
  IF Len(data) >= 19 /\ IsDigit(data[1])
  THEN \* Uncompressed position
    LET lat == SubSeq(data, 1, 8)
        symbol1 == data[9]
        lon == SubSeq(data, 10, 18)
        symbol2 == data[19]
        ext_and_comment == Drop(data, 19)
        symbol == <<symbol1, symbol2>>
    IN AfterExtension(
         _parse_data_extension(
           _parse_symbol(PositionFacts(facts, _parse_angle(lat), _parse_angle(lon)), symbol),
           PositionErrors(errors, lat, lon, _parse_angle(lat), _parse_angle(lon)),
           ext_and_comment, symbol))
  ELSE IF Len(data) >= 13
  THEN \* Compressed position
    LET symbol1 == data[1]
        lat == SubSeq(data, 2, 5)
        lon == SubSeq(data, 6, 9)
        symbol2 == data[10]
        c == data[11]
        s == data[12]
        comptype == data[13]
        comment == Drop(data, 13)
    IN CompressedExtension(
         _parse_symbol(Append(facts, Position(CompressedLatitude(lat), CompressedLongitude(lon))),
                       <<symbol1, symbol2>>),
         errors, c, s, _parse_base91(<<comptype>>), comment)
  ELSE Outcome(facts, Append(errors, Err("Position does not parse", <<>>)), data, "")

-----------------------------------------------------------------------------
(* Timestamps *)

IsLeap(y) == (y % 4 = 0 /\ y % 100 # 0) \/ y % 400 = 0

DaysInMonth(y, m) ==
  IF m = 2 THEN (IF IsLeap(y) THEN 29 ELSE 28)
  ELSE IF m \in {4, 6, 9, 11} THEN 30 ELSE 31

\* datetime.utcfromtimestamp(t) for whole seconds t >= 0 (proleptic Gregorian)
utcfromtimestamp(t) ==
  LET days == t \div 86400
      secs == t % 86400
      z == days + 719468
      era == z \div 146097
      doe == z - era * 146097
      yoe == (doe - (doe \div 1460) + (doe \div 36524) - (doe \div 146096)) \div 365
      doy == doe - (365 * yoe + (yoe \div 4) - (yoe \div 100))
      mp == (5 * doy + 2) \div 153
      d == doy - ((153 * mp + 2) \div 5) + 1
      m == IF mp < 10 THEN mp + 3 ELSE mp - 9
      y == yoe + era * 400 + (IF m <= 2 THEN 1 ELSE 0)
  IN [year |-> y, month |-> m, day |-> d, hour |-> secs \div 3600,
      minute |-> (secs % 3600) \div 60, second |-> secs % 60, microsecond |-> 0]

\* datetime.fromtimestamp(t) on a host whose local time is UTC + offset seconds
fromtimestamp(t, offset) == utcfromtimestamp(t + offset)

\* datetime.replace's checks, in the order datetime makes them: "" when valid
ReplaceError(dt) ==
  IF dt.day < 1 \/ dt.day > DaysInMonth(dt.year, dt.month)
  THEN "day is out of range for month"
  ELSE IF dt.hour > 23 THEN "hour must be in 0..23"
  ELSE IF dt.minute > 59 THEN "minute must be in 0..59"
  ELSE IF dt.second > 59 THEN "second must be in 0..59"
  ELSE ""

\* TimestampOutcome without the ValueError of datetime.replace
TimestampOutcome_Unchecked(facts, errors, absolute_time) ==
  Outcome(Append(facts, Timestamp(absolute_time)), errors, <<>>, "")

\* the try/except around absolute_time and the Timestamp fact it appends
TimestampOutcome(facts, errors, absolute_time) ==
  IF ReplaceError(absolute_time) # ""
  THEN Outcome(facts,
               Append(errors, Err("DHM/HMS timestamp invalid: ",
                                  <<ReplaceError(absolute_time)>>)),
               <<>>, "")
  ELSE Outcome(Append(facts, Timestamp(absolute_time)), errors, <<>>, "")

_parse_dhm_hms_timestamp(facts, errors, data, receive_time, offset) ==
  IF ~(Len(data) = 7 /\ AllDigits(Take(data, 6)) /\ data[7] \in {"z", "h", "/"})
  THEN Outcome(facts, Append(errors, Err("DHM/HMS timestamp does not parse", <<>>)), <<>>, "")
  ELSE
    LET n1 == ToInt(SubSeq(data, 1, 2))
        n2 == ToInt(SubSeq(data, 3, 4))
        n3 == ToInt(SubSeq(data, 5, 6))
        kind == data[7]
    IN TimestampOutcome(facts, errors,
          IF kind = "h"
          THEN [utcfromtimestamp(receive_time) EXCEPT
                  !.hour = n1, !.minute = n2, !.second = n3]
          ELSE IF kind = "z"
          THEN [utcfromtimestamp(receive_time) EXCEPT
                  !.day = n1, !.hour = n2, !.minute = n3, !.second = 0, !.microsecond = 0]
          ELSE [fromtimestamp(receive_time, offset) EXCEPT
                  !.day = n1, !.hour = n2, !.minute = n3, !.second = 0, !.microsecond = 0])

-----------------------------------------------------------------------------
(* Telemetry and capabilities *)

RECURSIVE Pow10(_)
Pow10(k) == IF k = 0 THEN 1 ELSE 10 * Pow10(k - 1)

RECURSIVE Strip(_)
Strip(s) ==
  IF Len(s) > 0 /\ s[1] = " " THEN Strip(Drop(s, 1))
  ELSE IF Len(s) > 0 /\ s[Len(s)] = " " THEN Strip(Take(s, Len(s) - 1))
  ELSE s

ToLower(c) == IF Ord(c) >= 65 /\ Ord(c) <= 90 THEN Ascii[Ord(c) + 1] ELSE c

Lower(s) == [i \in 1..Len(s) |-> ToLower(s[i])]

\* float(value_str): None for a ValueError, else the value
ParseFloat(value_str) ==
  LET s0 == Strip(value_str)
      signed == Len(s0) > 0 /\ s0[1] \in {"+", "-"}
      sign == IF Len(s0) > 0 /\ s0[1] = "-" THEN -1 ELSE 1
      body == IF signed THEN Drop(s0, 1) ELSE s0
      ePos == FirstIn(body, {"e", "E"}, 1)
      mant == Take(body, ePos - 1)
      expo == Drop(body, ePos)
      dot == FirstIn(mant, {"."}, 1)
      ip == Take(mant, dot - 1)
      fp == Drop(mant, dot)
      expSigned == Len(expo) > 0 /\ expo[1] \in {"+", "-"}
      expDigits == IF expSigned THEN Drop(expo, 1) ELSE expo
      expVal == (IF Len(expo) > 0 /\ expo[1] = "-" THEN -1 ELSE 1) * ToInt(expDigits)
      mantOk == AllDigits(ip) /\ AllDigits(fp) /\ Len(ip) + Len(fp) > 0
      expOk == ePos > Len(body) \/ (Len(expDigits) > 0 /\ AllDigits(expDigits))
      shift == (IF ePos > Len(body) THEN 0 ELSE expVal) - Len(fp)
      digits == ToInt(ip \o fp)
  IN
  IF Lower(body) \in {<<"i", "n", "f">>, <<"i", "n", "f", "i", "n", "i", "t", "y">>}
  THEN Some(Inf(sign))
  ELSE IF Lower(body) = <<"n", "a", "n">> THEN Some(NaN)
  ELSE IF mantOk /\ expOk
  THEN Some(IF shift >= 0 THEN Rat(sign * digits * Pow10(shift), 1)
            ELSE Rat(sign * digits, Pow10(-shift)))
  ELSE None

\* TelemetryOutcome numbering the channels from 0
TelemetryOutcome_ZeroBased(facts, errors, value_str, channel, value) ==
  IF value = None
  THEN Outcome(facts,
               Append(errors, Err("Telemetry channel did not parse: ",
                                  <<Ascii[17 + channel]>> \o value_str)),
               <<>>, "")
  ELSE Outcome(Append(facts, Telemetry(channel - 1, value[1])), errors, <<>>, "")

\* the try/except of _parse_telemetry_value on what float(value_str) gave
TelemetryOutcome(facts, errors, value_str, channel, value) ==
  IF value = None
  THEN Outcome(facts,
               Append(errors, Err("Telemetry channel did not parse: ",
                                  <<Ascii[17 + channel]>> \o value_str)),
               <<>>, "")
  ELSE Outcome(Append(facts, Telemetry(channel, value[1])), errors, <<>>, "")

_parse_telemetry_value(facts, errors, value_str, channel) ==
  TelemetryOutcome(facts, errors, value_str, channel, ParseFloat(value_str))

\* the indices of the commas of s, in increasing order
RECURSIVE CommaPositions(_, _)
CommaPositions(s, from) ==
  LET i == FirstIn(s, {","}, from)
  IN IF i > Len(s) THEN <<>> ELSE <<i>> \o CommaPositions(s, i + 1)

\* s.split(',')
Split(s) ==
  LET cp == CommaPositions(s, 1)
      bounds == <<0>> \o cp \o <<Len(s) + 1>>
  IN [k \in 1..(Len(cp) + 1) |-> SubSeq(s, bounds[k] + 1, bounds[k + 1] - 1)]

Bits8At(s, i) ==
  Len(s) >= i + 7 /\ \A j \in i..(i + 7) : s[j] \in {"0", "1"}

\* The match of ^T#([^,]*|MIC),?([^,]*),([^,]*),([^,]*),([^,]*),([^,]*),([01]{8})(.*)$
\* as the backtracking matcher finds it: None, or the five analog fields and the rest.
TelemetryMatch(payload) ==
  LET cp == CommaPositions(payload, 1)
      f == Split(payload)
  IN
  IF ~StartsWith(payload, <<"T", "#">>) THEN None
  ELSE IF Len(cp) >= 6 /\ Bits8At(payload, cp[6] + 1)
  THEN Some([a |-> <<f[2], f[3], f[4], f[5], f[6]>>, comment |-> Drop(payload, cp[6] + 8)])
  ELSE IF Len(cp) >= 5 /\ Bits8At(payload, cp[5] + 1)
  THEN Some([a |-> <<<<>>, f[2], f[3], f[4], f[5]>>, comment |-> Drop(payload, cp[5] + 8)])
  ELSE None

\* the five _parse_telemetry_value calls, channel by channel
RECURSIVE TelemetryValues(_, _, _, _)
RECURSIVE TelemetryNext(_, _, _)
\* TelemetryNext giving up the remaining channels after a channel in error
TelemetryNext_StopAtError(r, a, channel) ==
  IF r.errors # <<>> THEN r ELSE TelemetryValues(r.facts, r.errors, a, channel + 1)

TelemetryValues(facts, errors, a, channel) ==
  IF channel > 5 THEN Outcome(facts, errors, <<>>, "")
  ELSE TelemetryNext(_parse_telemetry_value(facts, errors, a[channel], channel), a, channel)

TelemetryNext(r, a, channel) == TelemetryValues(r.facts, r.errors, a, channel + 1)

\* (key, value) of one capability token: split at the first '=', value None without one
_parse_capability(capability) ==
  LET i == FirstIn(capability, {"="}, 1)
  IN IF i <= Len(capability)
     THEN <<Take(capability, i - 1), Some(Drop(capability, i))>>
     ELSE <<capability, None>>

\* dict(pairs): a later pair for the same key replaces the earlier one
RECURSIVE DictOf(_)
DictOf(pairs) ==
  IF Len(pairs) = 0 THEN <<>>
  ELSE LET last == pairs[Len(pairs)]
           before == DictOf(Take(pairs, Len(pairs) - 1))
       IN [k \in DOMAIN before \cup {last[1]} |->
             IF k = last[1] THEN last[2] ELSE before[k]]

-----------------------------------------------------------------------------
(* Mic-E *)

MicE(digit, message, ns, offset, ew) ==
  [lat_digit |-> digit, message_bit |-> message, ns |-> ns,
   lon_offset |-> offset, ew |-> ew]

\* (lat digit, message bit, lat dir, lon offset, lon dir)
_mic_e_addr_decode_table ==
  [c \in Digits \cup {"A", "B", "C", "D", "E", "F", "G", "H", "I", "J", "K", "L",
                      "P", "Q", "R", "S", "T", "U", "V", "W", "X", "Y", "Z"} |->
     IF c \in Digits THEN MicE(c, 0, "S", 0, 1)
     ELSE IF c = "K" THEN MicE(" ", 1, " ", 0, 0)
     ELSE IF c = "L" THEN MicE(" ", 0, "S", 0, 1)
     ELSE IF c = "Z" THEN MicE(" ", 1, "N", 100, -1)
     ELSE IF Ord(c) <= 74 THEN MicE(Ascii[Ord(c) - 65 + 17], 1, " ", 0, 0)
     ELSE MicE(Ascii[Ord(c) - 80 + 17], 1, "N", 100, -1)]

\* The Mic-E branch of _parse_payload, after the two length checks.
MicEDecode(facts, errors, destination, payload) ==
  IF \E i \in 1..6 : destination[i] \notin DOMAIN _mic_e_addr_decode_table
  THEN Outcome(facts, errors, <<>>, "KeyError")
  ELSE
    LET row == [i \in 1..6 |-> _mic_e_addr_decode_table[destination[i]]]
        latitude_string ==
          <<row[1].lat_digit, row[2].lat_digit, row[3].lat_digit, row[4].lat_digit, ".",
            row[5].lat_digit, row[6].lat_digit, row[4].ns>>
        latitude == _parse_angle(latitude_string)
        longitude_offset == row[5].lon_offset
        d28 == payload[2]
        m28 == payload[3]
        h28 == payload[4]
        sp28 == payload[5]
        dc28 == payload[6]
        se28 == payload[7]
        symbol_rev == SubSeq(payload, 8, 9)
        type_and_more == Drop(payload, 9)
        lon_d0 == Ord(d28) - 28 + longitude_offset
        lon_d == IF 180 <= lon_d0 /\ lon_d0 <= 189 THEN lon_d0 - 80
                 ELSE IF 190 <= lon_d0 /\ lon_d0 <= 199 THEN lon_d0 - 190
                 ELSE lon_d0
        lon_m0 == Ord(m28) - 28
        lon_m == IF lon_m0 >= 60 THEN lon_m0 - 60 ELSE lon_m0
        lon_s == Ord(h28) - 28
        longitude == Rat(row[6].ew * (lon_d * 6000 + lon_m * 100 + lon_s), 6000)
        facts1 == IF latitude # None
                  THEN Append(facts, Position(latitude[1], longitude))
                  ELSE facts
        errors1 == IF latitude # None THEN errors
                   ELSE Append(errors, Err("Mic-E latitude does not parse: ", latitude_string))
        dc == Ord(dc28) - 28
        speed0 == (Ord(sp28) - 28) * 10 + (dc \div 10)
        course0 == (dc % 10) + (Ord(se28) - 28)
        speed == IF speed0 >= 800 THEN speed0 - 800 ELSE speed0
        course == IF course0 >= 400 THEN course0 - 400 ELSE course0
        facts2 == _parse_symbol(Append(facts1, Velocity(Rat(speed, 1), Rat(course, 1))),
                                <<symbol_rev[2], symbol_rev[1]>>)
        typed == Len(type_and_more) >= 1
                 /\ type_and_more[1] \in {"]", " ", ">", Grave, "'"}
        has_altitude == Len(type_and_more) >= 5 /\ type_and_more[5] = "}"
        opt_altitude == SubSeq(type_and_more, 2, 4)
    IN
    IF ~typed
    THEN Outcome(facts2,
                 Append(errors1, Err("Mic-E contained non-type-code text: ", type_and_more)),
                 type_and_more, "")
    ELSE IF has_altitude
    THEN Outcome(Append(facts2, Altitude(Rat(_parse_base91(opt_altitude) - 10000, 1), FALSE)),
                 errors1, Drop(type_and_more, 5), "")
    ELSE Outcome(facts2, errors1, Drop(type_and_more, 1), "")

-----------------------------------------------------------------------------
(* Payload and envelope *)

\* MicEReport returning no text with its two errors
MicEReport_EmptyComment(facts, errors, destination, payload) ==
  IF Len(payload) < 9
  THEN Outcome(facts, Append(errors, Err("Mic-E Information is too short", <<>>)),
               <<>>, "")
  ELSE IF Len(destination) < 6
  THEN Outcome(facts, Append(errors, Err("Mic-E Destination Address is too short", <<>>)),
               <<>>, "")
  ELSE MicEDecode(facts, errors, destination, payload)

\* the Mic-E branch of _parse_payload: ^.(.)(.)(.)(.)(.)(.)(..)(.*)$ matches a
\* payload of nine or more characters
MicEReport(facts, errors, destination, payload) ==
  IF Len(payload) < 9
  THEN Outcome(facts, Append(errors, Err("Mic-E Information is too short", <<>>)),
               payload, "")
  ELSE IF Len(destination) < 6
  THEN Outcome(facts, Append(errors, Err("Mic-E Destination Address is too short", <<>>)),
               payload, "")
  ELSE MicEDecode(facts, errors, destination, payload)

\* _parse_position_and_symbol on the lists as the timestamp decoder left them
PositionAfter(ts, data) == _parse_position_and_symbol(ts.facts, ts.errors, data)

\* ObjectOutcome appending the nested facts to the message's list as well
ObjectOutcome_TopLevel(facts, name, live, pos) ==
  IF pos.raised # "" THEN Outcome(facts, pos.errors, pos.comment, pos.raised)
  ELSE Outcome(Append(facts, ObjectItemReport(TRUE, name, live, pos.facts)) \o pos.facts,
               pos.errors, pos.comment, "")

\* the ObjectItemReport the object branch appends, unless the position decoder raised
ObjectOutcome(facts, name, live, pos) ==
  IF pos.raised # "" THEN Outcome(facts, pos.errors, pos.comment, pos.raised)
  ELSE Outcome(Append(facts, ObjectItemReport(TRUE, name, live, pos.facts)),
               pos.errors, pos.comment, "")

\* the telemetry branch on the groups of its match
TelemetryComment(r, comment) == Outcome(r.facts, r.errors, comment, "")

TelemetryReport(facts, errors, payload, match) ==
  IF match = None
  THEN Outcome(facts, Append(errors, Err("Telemetry did not parse: ", payload)), <<>>, "")
  ELSE TelemetryComment(TelemetryValues(facts, errors, match[1].a, 1), match[1].comment)

_parse_payload(facts, errors, source, destination, payload, receive_time, offset) ==
  LET data_type == payload[1] IN
  IF Len(payload) < 1
  THEN Outcome(facts, Append(errors, Err("zero length information", <<>>)), payload, "")
  ELSE IF data_type = "!" \/ data_type = "="
  THEN _parse_position_and_symbol(Append(facts, Messaging(data_type = "=")), errors,
                                  Drop(payload, 1))
  ELSE IF data_type = "/" \/ data_type = "@"
  THEN
    IF Len(payload) < 8
    THEN Outcome(Append(facts, Messaging(data_type = "@")),
                 Append(errors, Err("Position With Timestamp is too short", <<>>)),
                 payload, "")
    ELSE PositionAfter(_parse_dhm_hms_timestamp(Append(facts, Messaging(data_type = "@")),
                                                errors, SubSeq(payload, 2, 8),
                                                receive_time, offset),
                       Drop(payload, 8))
  ELSE IF data_type = "<"
  THEN LET tokens == Split(Drop(payload, 1))
       IN Outcome(Append(facts, Capabilities(DictOf(
                     [k \in 1..Len(tokens) |-> _parse_capability(tokens[k])]))),
                  errors, <<>>, "")
  ELSE IF data_type = ">"
  THEN Outcome(Append(facts, Status(Drop(payload, 1))), errors, <<>>, "")
  ELSE IF data_type = Grave \/ data_type = "'"
  THEN MicEReport(facts, errors, destination, payload)
  ELSE IF data_type = ";"
  THEN
    IF ~(Len(payload) >= 18 /\ payload[11] \in {"*", "_"})
    THEN Outcome(facts, Append(errors, Err("Object Information did not parse", <<>>)),
                 payload, "")
    ELSE
      LET name == SubSeq(payload, 2, 10)
          live_str == payload[11]
          time_str == SubSeq(payload, 12, 18)
          position_ext_and_comment == Drop(payload, 18)
      IN ObjectOutcome(facts, name, live_str = "*",
                       PositionAfter(_parse_dhm_hms_timestamp(<<>>, errors, time_str,
                                                              receive_time, offset),
                                     position_ext_and_comment))
  ELSE IF data_type = "T"
  THEN TelemetryReport(facts, errors, payload, TelemetryMatch(payload))
  ELSE Outcome(facts, Append(errors, Err("unrecognized data type: ", <<data_type>>)),
               payload, "")

\* EnvelopeMatch with a via group that lacks its leading comma
EnvelopeMatch_ViaWithoutComma(line) ==
  LET gt == FirstIn(line, {":", ">", ","}, 1)
      dEnd == FirstIn(line, {":", ">", ","}, gt + 1)
      vEnd == FirstIn(line, {":", ">"}, dEnd)
  IN
  IF /\ gt > 1 /\ gt <= Len(line) /\ line[gt] = ">"
     /\ dEnd > gt + 1 /\ dEnd <= Len(line) /\ line[dEnd] # ">"
     /\ vEnd <= Len(line) /\ line[vEnd] = ":"
     /\ (vEnd = dEnd \/ vEnd >= dEnd + 2)
  THEN Some([source |-> Take(line, gt - 1),
             destination |-> SubSeq(line, gt + 1, dEnd - 1),
             via |-> SubSeq(line, dEnd + 1, vEnd - 1),
             payload |-> Drop(line, vEnd)])
  ELSE None

\* The groups of ^([^:>,]+?)>([^:>,]+)((?:,[^:>]+)*):(.*?)$ on line, None without a match.
EnvelopeMatch(line) ==
  LET gt == FirstIn(line, {":", ">", ","}, 1)
      dEnd == FirstIn(line, {":", ">", ","}, gt + 1)
      vEnd == FirstIn(line, {":", ">"}, dEnd)
  IN
  IF /\ gt > 1 /\ gt <= Len(line) /\ line[gt] = ">"
     /\ dEnd > gt + 1 /\ dEnd <= Len(line) /\ line[dEnd] # ">"
     /\ vEnd <= Len(line) /\ line[vEnd] = ":"
     /\ (vEnd = dEnd \/ vEnd >= dEnd + 2)
  THEN Some([source |-> Take(line, gt - 1),
             destination |-> SubSeq(line, gt + 1, dEnd - 1),
             via |-> SubSeq(line, dEnd, vEnd - 1),
             payload |-> Drop(line, vEnd)])
  ELSE None

\* the APRSMessage parse_tnc2 returns for a matched envelope g, given the outcome r
\* of _parse_payload: the message (None when it raised) and the exception
MatchedMessage(receive_time, g, r) ==
  IF r.raised # "" THEN [message |-> None, raised |-> r.raised]
  ELSE [message |-> Some(APRSMessage(receive_time, g.source, g.destination, g.via,
                                     g.payload, r.facts, r.errors, r.comment)),
        raised |-> ""]

\* EnvelopeOutcome leaving the comment of an unmatched line empty
EnvelopeOutcome_EmptyComment(line, receive_time, offset, match) ==
  IF match = None
  THEN [message |-> Some(APRSMessage(receive_time, <<>>, <<>>, <<>>, line, <<>>,
                                     <<Err("Could not parse TNC2", <<>>)>>, <<>>)),
        raised |-> ""]
  ELSE MatchedMessage(receive_time, match[1],
                      _parse_payload(<<>>, <<>>, match[1].source, match[1].destination,
                                     match[1].payload, receive_time, offset))

\* the two branches of parse_tnc2 on the envelope's match
EnvelopeOutcome(line, receive_time, offset, match) ==
  IF match = None
  THEN [message |-> Some(APRSMessage(receive_time, <<>>, <<>>, <<>>, line, <<>>,
                                     <<Err("Could not parse TNC2", <<>>)>>, line)),
        raised |-> ""]
  ELSE MatchedMessage(receive_time, match[1],
                      _parse_payload(<<>>, <<>>, match[1].source, match[1].destination,
                                     match[1].payload, receive_time, offset))

\* parse_tnc2 on a host whose local time is UTC + offset seconds: the message it
\* returns (None when it raises) and the exception it raises ("" when it returns).
parse_tnc2(line, receive_time, offset) ==
  EnvelopeOutcome(line, receive_time, offset, EnvelopeMatch(line))

-----------------------------------------------------------------------------
(* The station entity *)

TelemetryItem(value, timestamp) == [value |-> value, timestamp |-> timestamp]

\* shinysdr.telemetry.empty_track: no field has a value yet
empty_track ==
  [latitude |-> None, longitude |-> None, altitude |-> None,
   h_speed |-> None, track_angle |-> None]

\* APRSStation.__init__
APRSStation(object_id) ==
  [last_heard_time |-> None, address |-> object_id, track |-> empty_track,
   status |-> <<>>, symbol |-> <<>>, last_comment |-> <<>>, last_parse_error |-> <<>>]

\* '; '.join(errors)
RECURSIVE Join(_)
Join(errors) ==
  IF Len(errors) = 0 THEN <<>>
  ELSE IF Len(errors) = 1 THEN errors[1]
  ELSE Join(Take(errors, Len(errors) - 1)) \o <<"; ">> \o errors[Len(errors)]

\* value * _FEET_TO_METERS (0.3048) for feet, value * 1 for meters
AltitudeMeters(fact) ==
  IF fact.feet_not_meters THEN Scale(fact.value, 381, 1250) ELSE fact.value

\* speed_knots * _KNOTS_TO_METERS_PER_SECOND (1852 / 3600)
SpeedMetersPerSecond(fact) == Scale(fact.speed_knots, 463, 900)

\* ApplyFact filling a field of the track only while it is still absent
ApplyFact_KeepFirst(self, fact, receive_time) ==
  IF fact.type = "KillObject" THEN [self EXCEPT !.last_heard_time = Some(0)]
  ELSE IF fact.type = "Position"
  THEN IF self.track.latitude # None THEN self
       ELSE [self EXCEPT !.track.latitude = Some(TelemetryItem(fact.latitude, receive_time)),
                         !.track.longitude = Some(TelemetryItem(fact.longitude, receive_time))]
  ELSE IF fact.type = "Altitude"
  THEN IF self.track.altitude # None THEN self
       ELSE [self EXCEPT !.track.altitude =
                            Some(TelemetryItem(AltitudeMeters(fact), receive_time))]
  ELSE IF fact.type = "Velocity"
  THEN IF self.track.h_speed # None THEN self
       ELSE [self EXCEPT !.track.h_speed =
                            Some(TelemetryItem(SpeedMetersPerSecond(fact), receive_time)),
                         !.track.track_angle =
                            Some(TelemetryItem(fact.course_degrees, receive_time))]
  ELSE IF fact.type = "Status" THEN [self EXCEPT !.status = fact.text]
  ELSE IF fact.type = "Symbol" THEN [self EXCEPT !.symbol = fact.id]
  ELSE self

\* ApplyFact with a Velocity fact replacing h_speed and leaving track_angle
ApplyFact_SpeedOnly(self, fact, receive_time) ==
  IF fact.type = "KillObject" THEN [self EXCEPT !.last_heard_time = Some(0)]
  ELSE IF fact.type = "Position"
  THEN [self EXCEPT !.track.latitude = Some(TelemetryItem(fact.latitude, receive_time)),
                    !.track.longitude = Some(TelemetryItem(fact.longitude, receive_time))]
  ELSE IF fact.type = "Altitude"
  THEN [self EXCEPT !.track.altitude =
                       Some(TelemetryItem(AltitudeMeters(fact), receive_time))]
  ELSE IF fact.type = "Velocity"
  THEN [self EXCEPT !.track.h_speed =
                       Some(TelemetryItem(SpeedMetersPerSecond(fact), receive_time))]
  ELSE IF fact.type = "Status" THEN [self EXCEPT !.status = fact.text]
  ELSE IF fact.type = "Symbol" THEN [self EXCEPT !.symbol = fact.id]
  ELSE self

\* one pass of the loop body of APRSStation.receive
ApplyFact(self, fact, receive_time) ==
  IF fact.type = "KillObject" THEN [self EXCEPT !.last_heard_time = Some(0)]
  ELSE IF fact.type = "Position"
  THEN [self EXCEPT !.track.latitude = Some(TelemetryItem(fact.latitude, receive_time)),
                    !.track.longitude = Some(TelemetryItem(fact.longitude, receive_time))]
  ELSE IF fact.type = "Altitude"
  THEN [self EXCEPT !.track.altitude =
                       Some(TelemetryItem(AltitudeMeters(fact), receive_time))]
  ELSE IF fact.type = "Velocity"
  THEN [self EXCEPT !.track.h_speed =
                       Some(TelemetryItem(SpeedMetersPerSecond(fact), receive_time)),
                    !.track.track_angle =
                       Some(TelemetryItem(fact.course_degrees, receive_time))]
  ELSE IF fact.type = "Status" THEN [self EXCEPT !.status = fact.text]
  ELSE IF fact.type = "Symbol" THEN [self EXCEPT !.symbol = fact.id]
  ELSE self

RECURSIVE ApplyFacts(_, _, _)
ApplyFacts(self, facts, receive_time) ==
  IF Len(facts) = 0 THEN self
  ELSE ApplyFact(ApplyFacts(self, Take(facts, Len(facts) - 1), receive_time),
                 facts[Len(facts)], receive_time)

\* NoteCommentAndErrors assigning the joined errors whether or not there are any
NoteCommentAndErrors_Always(self, message) ==
  [self EXCEPT !.last_comment = message.comment,
               !.last_parse_error = Join(message.errors)]

\* NoteCommentAndErrors adding the joined errors to the text already there
NoteCommentAndErrors_Append(self, message) ==
  [self EXCEPT !.last_comment = message.comment,
               !.last_parse_error = IF Len(message.errors) > 0
                                    THEN @ \o Join(message.errors)
                                    ELSE @]

\* NoteCommentAndErrors keeping the comment already there when the new one is empty
NoteCommentAndErrors_KeepComment(self, message) ==
  [self EXCEPT !.last_comment = IF message.comment = <<>> THEN @ ELSE message.comment,
               !.last_parse_error = IF Len(message.errors) > 0
                                    THEN Join(message.errors)
                                    ELSE @]

\* the tail of APRSStation.receive: last comment and last parse error
NoteCommentAndErrors(self, message) ==
  [self EXCEPT !.last_comment = message.comment,
               !.last_parse_error = IF Len(message.errors) > 0
                                    THEN Join(message.errors)
                                    ELSE @]

\* receive leaving the last heard time of a killed entity at 0
receive_StayKilled(self, message) ==
  NoteCommentAndErrors(
    ApplyFacts([self EXCEPT !.last_heard_time =
                              IF @ = Some(0) THEN @ ELSE Some(message.receive_time)],
               message.facts, message.receive_time),
    message)

\* APRSStation.receive
receive(self, message) ==
  NoteCommentAndErrors(
    ApplyFacts([self EXCEPT !.last_heard_time = Some(message.receive_time)],
               message.facts, message.receive_time),
    message)

\* APRSStation.get_object_expiry: None when the addition raises TypeError
get_object_expiry(self) ==
  IF self.last_heard_time = None THEN None
  ELSE Some(self.last_heard_time[1] + drop_unheard_timeout_seconds)

\* APRSStation.is_interesting
is_interesting(self) == TRUE

-----------------------------------------------------------------------------
(* The store *)

\* APRSMessage.get_object_id
get_object_id(message) == message.source

EmptyStore == [id \in {} |-> APRSStation(id)]

\* TelemetryStore.receive: look the object up by id, create it on first sight,
\* and hand it the message
StoreReceive(st, message) ==
  LET id == get_object_id(message)
      obj == IF id \in DOMAIN st THEN st[id] ELSE APRSStation(id)
  IN [k \in DOMAIN st \cup {id} |-> IF k = id THEN receive(obj, message) ELSE st[k]]

\* ObjectMessage handing on the nested facts of a report that is not live
ObjectMessage_NestedFacts(message, fact) ==
  APRSMessage(message.receive_time, fact.name, None, None, None,
              fact.facts, message.errors, message.comment)

\* the message expand_aprs_message makes for one Object/Item report
ObjectMessage(message, fact) ==
  APRSMessage(message.receive_time, fact.name, None, None, None,
              IF fact.live THEN fact.facts ELSE <<KillObject>>,
              message.errors, message.comment)

\* the loop of expand_aprs_message over message.facts[1..n]
RECURSIVE ExpandFacts(_, _, _)
ExpandFacts(st, message, n) ==
  IF n = 0 THEN st
  ELSE LET before == ExpandFacts(st, message, n - 1)
           fact == message.facts[n]
       IN IF fact.type = "ObjectItemReport"
          THEN StoreReceive(before, ObjectMessage(message, fact))
          ELSE before

\* expand_aprs_message handing the reports to the store before the message itself
expand_aprs_message_ReportsFirst(message, st) ==
  StoreReceive(ExpandFacts(st, message, Len(message.facts)), message)

expand_aprs_message(message, st) ==
  ExpandFacts(StoreReceive(st, message), message, Len(message.facts))

-----------------------------------------------------------------------------
(* Inputs *)

\* receive_time values (time.time()): 2016-02-29 23:59:59 UTC and 2017-07-14 02:40:00 UTC
ReceiveTimes == {1456790399, 1500000000}

\* the host's local time as seconds east of UTC: UTC, New York (EST), Tokyo
HostOffsets == {0, -18000, 32400}

\* longest line of the exhaustive envelope inputs
MaxLineLen == 4

EnvelopeAlphabet == {"A", ">", ":", ","}

RECURSIVE StringsUpTo(_, _)
StringsUpTo(alphabet, n) ==
  IF n = 0 THEN {<<>>}
  ELSE LET shorter == StringsUpTo(alphabet, n - 1)
       IN shorter \cup {Append(s, c) : s \in shorter, c \in alphabet}

\* every line over the envelope's delimiters, up to MaxLineLen characters
ShortLines == StringsUpTo(EnvelopeAlphabet, MaxLineLen)

Envelope(source, destination, via, payload) ==
  source \o <<">">> \o destination \o via \o <<":">> \o payload

N0CALL ==
  <<"N", "0", "C", "A", "L", "L">>

APRS ==
  <<"A", "P", "R", "S">>

Vias ==
  { <<>>, <<",", "W", "I", "D", "E", "1", "-", "1">>,
    <<",", "W", "I", "D", "E", "1", "-", "1", ",", "W", "I", "D", "E", "2", "-", "2">> }

\* lines the envelope grammar rejects
MalformedLines ==
  { <<"g", "a", "r", "b", "a", "g", "e", " ", "n", "o", " ", "c", "o", "l", "o", "n">>,
    <<"N", "0", "C", "A", "L", "L", ">", "A", "P", "R", "S">>,
    <<"N", "0", "C", "A", "L", "L", ":", "A", "P", "R", "S", ">", "x">>,
    <<"N", "0", "C", "A", "L", "L", ">", "A", "P", ">", "R", "S", ":", "!", "x">>,
    <<"N", "0", "C", "A", "L", "L", ">", "A", "P", "R", "S", ",", ":", "!", "x">>,
    <<",", "N", "0", "C", "A", "L", "L", ">", "A", "P", "R", "S", ":", ">", "x">>,
    <<">", "A", "P", "R", "S", ":", ">", "x">>,
    <<"N", "0", "C", "A", "L", "L", ">", ":", ">", "x">>,
    <<"N", "0", "C", "A", "L", "L", ">", "A", "P", "R", "S", ",", "a", ">", "b", ":", ">", "x">> }

\* lines the pattern accepts although an element of via is empty: [^:>]+ admits ','
CommaViaLines ==
  { <<"N", "0", "C", "A", "L", "L", ">", "A", "P", "R", "S", ",", ",", ":", ">", "x">>,
    <<"N", "0", "C", "A", "L", "L", ">", "A", "P", "R", "S", ",", "a", ",", ":", ">", "x">>,
    <<"N", "0", "C", "A", "L", "L", ">", "A", "P", "R", "S", ",", ",", "a", ",", ",", ":", ">", "x">> }

\* the lines the documentation gives as examples, and their neighbours
SpecExampleLines ==
  { <<"N", "0", "C", "A", "L", "L", ">", "A", "P", "R", "S", ",", "W", "I", "D", "E", "1", "-", "1", ":", "!", "4", "9", "0", "3", ".", "5", "0", "N", "/", "0", "7", "2", "0", "1", ".", "7", "5", "W", "-", "T", "e", "s", "t">>,
    <<"N", "0", "C", "A", "L", "L", ">", "A", "P", "R", "S", ":", ":", "T", "#", "0", "0", "5", ",", "1", "0", "0", ",", "0", "5", "0", ",", "0", "2", "5", ",", "0", "8", "0", ",", "0", "0", "5", ",", "0", "0", "0", "0", "0", "0", "0", "0">>,
    <<"N", "0", "C", "A", "L", "L", ">", "A", "P", "R", "S", ":", "T", "#", "0", "0", "5", ",", "1", "0", "0", ",", "0", "5", "0", ",", "0", "2", "5", ",", "0", "8", "0", ",", "0", "0", "5", ",", "0", "0", "0", "0", "0", "0", "0", "0">>,
    <<"N", "0", "C", "A", "L", "L", ">", "A", "P", "R", "S", ":", "<", "T", "E", "S", "T", "=", "1", ",", "S", "O", "L", "O">>,
    <<"N", "0", "C", "A", "L", "L", ">", "A", "P", "R", "S", ":">>,
    <<"N", "0", "C", "A", "L", "L", ">", "A", "P", "R", "S", ":", ">", "O", "n", " ", "t", "h", "e", " ", "a", "i", "r">>,
    <<"N", "0", "C", "A", "L", "L", ">", "A", "P", "R", "S", ",", "q", "A", "R", ",", "X", ":", "?", "A", "P", "R", "S", "?">> }

Latitudes ==
  { <<"4", "9", "0", "3", ".", "5", "0", "N">>,
    <<"4", "9", " ", " ", ".", " ", " ", "S">>,
    <<"4", "9", "0", "3", ".", "5", "0", "X">> }

Longitudes ==
  { <<"0", "7", "2", "0", "1", ".", "7", "5", "W">>,
    <<"1", "8", "0", "0", "0", ".", "0", "0", "E">>,
    <<"7", "2", "0", "1", ".", "7", "5", "0", "W">> }

SymbolTables ==
  {"/", "\\"}

SymbolCodes ==
  {"-", "l"}

Extensions ==
  { <<>>, <<"0", "8", "8", "/", "0", "3", "6">>, <<"P", "H", "G", "5", "1", "3", "2">>,
    <<"R", "N", "G", "0", "0", "5", "0">>, <<"D", "F", "S", "2", "3", "6", "0">>,
    <<"3", "1", "2", "1", "2", "3", "4">>, <<"3", "1", "2", "/", "2", "3", "4">>,
    <<"R", "N", "G", "0", "0", "5">> }

Comments ==
  { <<>>, <<"T", "e", "s", "t">>,
    <<"x", "/", "A", "=", "0", "0", "1", "2", "3", "4", "y">> }

UncompressedPositions ==
  {lat \o <<t>> \o lon \o <<c>> \o ext \o comment :
     lat \in Latitudes, t \in SymbolTables, lon \in Longitudes, c \in SymbolCodes,
     ext \in Extensions, comment \in Comments}

\* the base-91 digits 0, 1 and 90
Base91Digits == {"!", "\"", "{"}

Base91Fields == {<<a, b, c, d>> : a \in Base91Digits, b \in Base91Digits,
                                  c \in Base91Digits, d \in Base91Digits}

\* fields 0, 90*380926, 180*380926 (= 360*190463), the next one, and 91^4 - 1
Base91Corners ==
  { <<"!", "!", "!", "!">>, <<"N", "N", "!", "!">>, <<"{", "{", "!", "!">>,
    <<"{", "{", "!", "\"">>, <<"{", "{", "{", "{">> }

\* the c, s and compression type bytes
CompressionBytes ==
  { <<" ", "s", "T">>, <<"{", "s", "T">>, <<"7", "P", "X">>, <<"7", "P", "Q">>,
    <<" ", "P", "Q">>, <<"{", "P", "Q">>, <<"~", "P", "X">>, <<"!", "!", "!">>,
    <<"7", Repl, "X">>, <<"{", Repl, "X">>, <<Repl, Repl, "Q">>, <<Repl, "7", "X">>,
    <<"7", Repl, "A">>, <<"{", Repl, "A">> }

CompressedPositions ==
  {<<"/">> \o lat \o lon \o <<"-">> \o cst \o comment :
     lat \in Base91Fields, lon \in Base91Corners,
     cst \in {<<" ", "s", "T">>}, comment \in {<<>>}}
  \cup
  {<<"/">> \o lat \o lon \o <<"-">> \o cst \o comment :
     lat \in Base91Corners, lon \in Base91Fields,
     cst \in {<<" ", "s", "T">>}, comment \in {<<>>}}
  \cup
  {<<"\\">> \o lat \o lon \o <<"l">> \o cst \o comment :
     lat \in {<<"5", "M", "z", "|">>}, lon \in {<<"N", "N", "!", "!">>},
     cst \in CompressionBytes, comment \in Comments}

\* position fields too short for either layout, or short enough to fall to the compressed one
ShortPositions ==
  { <<>>,
    <<"4", "9", "0", "3", ".", "5", "0", "N", "/", "0", "7", "2", "0", "1", ".", "7", "5", "W">>,
    <<"/", "5", "M", "z", "|", "N", "N", "!", "!", "-", "7", "P">>,
    <<"4", "9", "0", "3", ".", "5", "0", "N", "/", "0", "7", "2">> }

PositionLines ==
  {Envelope(N0CALL, APRS, <<>>, <<dt>> \o p) :
     dt \in {"!", "="},
     p \in UncompressedPositions \cup CompressedPositions \cup ShortPositions}

TimeFields ==
  { <<"0", "9", "2", "3", "4", "5", "z">>, <<"0", "9", "2", "3", "4", "5", "h">>,
    <<"0", "9", "2", "3", "4", "5", "/">>, <<"3", "0", "2", "3", "4", "5", "z">>,
    <<"3", "2", "2", "3", "4", "5", "z">>, <<"0", "0", "2", "3", "4", "5", "z">>,
    <<"0", "9", "2", "4", "4", "5", "z">>, <<"0", "9", "2", "3", "6", "0", "z">>,
    <<"2", "3", "5", "9", "6", "0", "h">>, <<"0", "1", "0", "0", "0", "0", "/">>,
    <<"0", "9", "2", "3", "4", "x", "z">>, <<"0", "9", "2", "3", "4", "5", "6">> }

TimedLines ==
  {Envelope(N0CALL, APRS, <<>>, <<dt>> \o ts \o p) :
     dt \in {"/", "@"}, ts \in TimeFields,
     p \in {<<"4", "9", "0", "3", ".", "5", "0", "N", "/", "0", "7", "2", "0", "1", ".", "7", "5", "W", "-", "0", "8", "8", "/", "0", "3", "6">>,
            <<"/", "5", "M", "z", "|", "N", "N", "!", "!", "-", "7", "P", "X">>,
            <<"4", "9">>}}
  \cup {Envelope(N0CALL, APRS, <<>>, p) : p \in {<<"/", "0", "9", "2", "3", "4">>, <<"@">>}}

ObjectNames ==
  { <<"O", "B", "J", "1", " ", " ", " ", " ", " ">>,
    <<"L", "E", "A", "D", "E", "R", "1", "2", "3">> }

ObjectLines ==
  {Envelope(source, APRS, <<>>, <<";">> \o name \o <<live>> \o ts \o p) :
     source \in {N0CALL, <<"L", "E", "A", "D", "E", "R", "1", "2", "3">>},
     name \in ObjectNames, live \in {"*", "_", "x"},
     ts \in {<<"0", "9", "2", "3", "4", "5", "z">>, <<"3", "2", "2", "3", "4", "5", "z">>},
     p \in {<<"4", "9", "0", "3", ".", "5", "0", "N", "/", "0", "7", "2", "0", "1", ".", "7", "5", "W", "-", "0", "8", "8", "/", "0", "3", "6", "T", "e", "s", "t">>,
            <<"4", "9", "0", "3", ".", "5", "0", "X", "/", "0", "7", "2", "0", "1", ".", "7", "5", "W", "-", "P", "H", "G", "5", "1", "3", "2">>,
            <<"/", "5", "M", "z", "|", "N", "N", "!", "!", "-", "7", "P", "X">>,
            <<"/", "5", "M", "z", "|", "N", "N", "!", "!", "-", "7", Repl, "X">>,
            <<"4", "9">>}}
  \cup {Envelope(N0CALL, APRS, <<>>, p) : p \in {<<";", "O", "B", "J", "1", " ", " ", " ", " ", " ", "*", "0", "9", "2", "3", "4">>, <<";">>}}

MicEDestinations ==
  { <<"S", "3", "2", "U", "6", "T">>, <<"T", "7", "S", "Y", "W", "P">>,
    <<"S", "3", "2", "U", "6", "T", "-", "3">>, <<"A", "B", "C", "D", "E", "F">>,
    <<"K", "L", "Z", "0", "P", "Q">>, <<"4", "X", "5", "Y", "6", "Z">>,
    <<"S", "3", "2", "u", "6", "T">>, <<"A", "P", "R", "S", "-", "1">>,
    <<"M", "N", "O", "1", "2", "3">>, <<"S", "3", "2", "U", "6", Repl>>,
    <<"S", "3", "2", "U", "6">>, <<"A", "P", "R", "S">> }

MicETrailers ==
  { <<>>, <<"]">>, <<"]", "\"", "4", "T", "}", "h", "i">>,
    <<Grave, "\"", "4", "T", "}">>, <<"'", "a", "b", "c">>, <<">", "\"", "4", "T">>,
    <<"x", "a", "b", "c">>, <<"]", Repl, Repl, Repl, "}">> }

MicEBodies ==
  {<<d28, m28, "f", sp28, dc28, se28, "j", "/">> \o trailer :
     d28 \in {"(", "l", "v"}, m28 \in {"_", "X"}, sp28 \in {"n", "l"},
     dc28 \in {"\"", "z"}, se28 \in {"O", Repl}, trailer \in MicETrailers}

MicELines ==
  {Envelope(N0CALL, destination, <<>>, <<dt>> \o body) :
     destination \in MicEDestinations, dt \in {Grave, "'"},
     body \in {b \in MicEBodies : b[1] = "("}}
  \cup
  {Envelope(N0CALL, destination, <<>>, <<dt>> \o body) :
     destination \in {<<"S", "3", "2", "U", "6", "T">>}, dt \in {Grave, "'"},
     body \in MicEBodies}
  \cup
  {Envelope(N0CALL, destination, <<>>, <<dt>> \o body) :
     destination \in MicEDestinations, dt \in {Grave, "'"},
     body \in {<<"(", "_", "f", "n", "\"", "O", "j">>, <<>>}}

TelemetryFields ==
  { <<"1", "0", "0">>, <<"0", "5", "0">>, <<"5", ".", "5">>, <<>>, <<" ", "7", " ">>,
    <<"-", "3">>, <<".", "5">>, <<".">>, <<"a", "b", "c">>, <<"1", "e", "2">>,
    <<"1", "E", "-", "2">>, <<"i", "n", "f">>, <<"n", "a", "n">>,
    <<"1", ".", "2", ".", "3">>, <<Repl>> }

TelemetryLines ==
  {Envelope(N0CALL, APRS, <<>>,
            <<"T", "#", "0", "0", "5", ",">> \o a1 \o <<",">> \o a2
              \o <<",", "0", "2", "5", ",", "0", "8", "0", ",">> \o a5 \o <<",">> \o tail) :
     a1 \in TelemetryFields, a2 \in TelemetryFields, a5 \in {<<"0", "0", "5">>, <<"x">>},
     tail \in {<<"0", "0", "0", "0", "0", "0", "0", "0">>, <<"1", "0", "1", "0", "1", "0", "1", "0", "c", "o", "m", "m", "e", "n", "t">>, <<"0", "0", "0", "0", "0", "0", "0">>}}
  \cup {Envelope(N0CALL, APRS, <<>>, p) : p \in
      { <<"T", "#", "M", "I", "C", ",", "1", "0", "0", ",", "0", "5", "0", ",", "0", "2", "5", ",", "0", "8", "0", ",", "0", "0", "5", ",", "0", "0", "0", "0", "0", "0", "0", "0">>,
    <<"T", "#", "M", "I", "C", "1", "0", "0", ",", "0", "5", "0", ",", "0", "2", "5", ",", "0", "8", "0", ",", "0", "0", "5", ",", "0", "0", "0", "0", "0", "0", "0", "0", ",", "x">>,
    <<"T", "#", ",", "1", ",", "2", ",", "3", ",", "4", ",", "0", "0", "0", "0", "0", "0", "0", "0">>,
    <<"T", "#", "1", ",", "2", ",", "3", ",", "4", ",", "0", "0", "0", "0", "0", "0", "0", "0">>,
    <<"T", "x", "0", "0", "5", ",", "1", "0", "0", ",", "0", "5", "0", ",", "0", "2", "5", ",", "0", "8", "0", ",", "0", "0", "5", ",", "0", "0", "0", "0", "0", "0", "0", "0">>,
    <<"T">>,
    <<"T", "#", "0", "0", "5", ",", "1", ",", "2", ",", "3", ",", "4", ",", "5", ",", "6", ",", "1", "1", "1", "1", "1", "1", "1", "1", "z">> }}

CapabilityLists ==
  { <<"T", "E", "S", "T", "=", "1", ",", "S", "O", "L", "O">>,
    <<"I", "G", "A", "T", "E", ",", "M", "S", "G", "_", "C", "N", "T", "=", "4", "3", ",", "L", "O", "C", "_", "C", "N", "T", "=", "1", "4">>,
    <<>>, <<",">>, <<"=">>, <<"A", "=", "1", ",", "A", "=", "2">>,
    <<"A", "=", "1", "=", "2", ",", "B">>, <<"A", ",", "A", "=", "3", ",", "=", "x">> }

OtherLines ==
  {Envelope(N0CALL, APRS, via, <<"<">> \o caps) : via \in Vias, caps \in CapabilityLists}
  \cup {Envelope(N0CALL, APRS, via, <<dt>> \o rest) :
          via \in Vias,
          dt \in {">", ":", "#", "$", "%", ")", "*", ",", "?", "_", "}", "t", "0", " ", Repl},
          rest \in {<<>>, <<"a", "b", "c", ":", ">", ",">>}}

\* lines whose decoding does not read the clock
UntimedLines ==
  ShortLines \cup MalformedLines \cup CommaViaLines \cup SpecExampleLines \cup PositionLines
  \cup MicELines \cup TelemetryLines \cup OtherLines

\* lines with a timestamp field
ClockLines == TimedLines \cup ObjectLines

-----------------------------------------------------------------------------
(* The decoder on its own: one line is drawn, then decoded *)

DecodeInputs ==
  {<<line, t, offset>> : line \in ClockLines, t \in ReceiveTimes, offset \in HostOffsets}
  \cup {<<line, 1500000000, 0>> : line \in UntimedLines}

\* what the last operation was given and what came of it
\* repeat: the message is the very message the operation before this one merged
Outcome3(line, t, offset, message, raised, phase, repeat) ==
  [line |-> line, time |-> t, offset |-> offset, message |-> message,
   raised |-> raised, phase |-> phase, repeat |-> repeat]

Idle == Outcome3(None, 0, 0, None, "", "idle", FALSE)

InitDecode ==
  /\ store = EmptyStore
  /\ prev = EmptyStore
  /\ steps = 0
  /\ heap = <<>> /\ calls = <<>> /\ aprsis = <<>> /\ multimon = <<>>
  /\ msg \in {Outcome3(Some(i[1]), i[2], i[3], None, "", "pending", FALSE) : i \in DecodeInputs}

\* message = parse_tnc2(line, time.time())
\* the pending input m once parse_tnc2 has returned or raised p
Decoded(m, p) ==
  [m EXCEPT !.message = p.message, !.raised = p.raised, !.phase = "decoded"]

Decode ==
  /\ msg.phase = "pending"
  /\ msg' = Decoded(msg, parse_tnc2(msg.line[1], msg.time, msg.offset))
  /\ UNCHANGED <<store, prev, steps, heap, calls, aprsis, multimon>>

NextDecode == Decode

SpecDecode == InitDecode /\ [][NextDecode]_vars

-----------------------------------------------------------------------------
(* The store fed with lines and with messages *)

\* number of lines and messages delivered in one run
MaxSteps == 2

OBJ1 ==
  <<"O", "B", "J", "1", " ", " ", " ", " ", " ">>

LEADER123 ==
  <<"L", "E", "A", "D", "E", "R", "1", "2", "3">>

StoreLines ==
  { <<"N", "0", "C", "A", "L", "L", ">", "A", "P", "R", "S", ",", "W", "I", "D", "E", "1", "-", "1", ":", "!", "4", "9", "0", "3", ".", "5", "0", "N", "/", "0", "7", "2", "0", "1", ".", "7", "5", "W", "-", "T", "e", "s", "t">>,
    <<"N", "0", "C", "A", "L", "L", ">", "A", "P", "R", "S", ":", "=", "4", "9", "0", "3", ".", "5", "0", "N", "/", "0", "7", "2", "0", "1", ".", "7", "5", "W", ">", "0", "8", "8", "/", "0", "3", "6", "/", "A", "=", "0", "0", "1", "2", "3", "4">>,
    <<"N", "0", "C", "A", "L", "L", ">", "A", "P", "R", "S", ":", ">", "O", "n", " ", "t", "h", "e", " ", "a", "i", "r">>,
    <<"N", "0", "C", "A", "L", "L", ">", "S", "3", "2", "U", "6", "T", ":", Grave, "(", "_", "f", "n", "\"", "O", "j", "/", "]", "\"", "4", "T", "}", "h", "i">>,
    <<"N", "0", "C", "A", "L", "L", ">", "A", "P", "R", "S", ":", ";", "O", "B", "J", "1", " ", " ", " ", " ", " ", "*", "0", "9", "2", "3", "4", "5", "z", "4", "9", "0", "3", ".", "5", "0", "N", "/", "0", "7", "2", "0", "1", ".", "7", "5", "W", "-", "0", "8", "8", "/", "0", "3", "6", "T", "e", "s", "t">>,
    <<"N", "0", "C", "A", "L", "L", ">", "A", "P", "R", "S", ":", ";", "O", "B", "J", "1", " ", " ", " ", " ", " ", "_", "0", "9", "2", "3", "4", "5", "z", "4", "9", "0", "3", ".", "5", "0", "N", "/", "0", "7", "2", "0", "1", ".", "7", "5", "W", "-">>,
    <<"L", "E", "A", "D", "E", "R", "1", "2", "3", ">", "A", "P", "R", "S", ":", ";", "L", "E", "A", "D", "E", "R", "1", "2", "3", "_", "3", "2", "2", "3", "4", "5", "z", "/", "5", "M", "z", "|", "N", "N", "!", "!", "-", "7", "P", "X">>,
    <<"L", "E", "A", "D", "E", "R", "1", "2", "3", ">", "A", "P", "R", "S", ":", ";", "L", "E", "A", "D", "E", "R", "1", "2", "3", "*", "0", "9", "2", "3", "4", "5", "z", "/", "5", "M", "z", "|", "N", "N", "!", "!", "l", "7", "P", "Q">>,
    <<"O", "B", "J", "1", " ", " ", " ", " ", " ", ">", "A", "P", "R", "S", ":", "!", "4", "9", "0", "3", ".", "5", "0", "X", "/", "0", "7", "2", "0", "1", ".", "7", "5", "W", "-", "P", "H", "G", "5", "1", "3", "2">>,
    <<"N", "0", "C", "A", "L", "L", ">", "A", "P", "R", "S", ":", "T", "#", "0", "0", "5", ",", "1", "0", "0", ",", "0", "5", "0", ",", "0", "2", "5", ",", "0", "8", "0", ",", "0", "0", "5", ",", "0", "0", "0", "0", "0", "0", "0", "0">>,
    <<"N", "0", "C", "A", "L", "L", ">", "S", "3", "2", "u", "6", "T", ":", Grave, "(", "_", "f", "n", "\"", "O", "j", "/">>,
    <<"g", "a", "r", "b", "a", "g", "e", " ", "n", "o", " ", "c", "o", "l", "o", "n">> }

\* messages handed to the store directly, not decoded from a line
ConstructedMessages ==
  {APRSMessage(t, N0CALL, APRS, <<>>, <<>>, facts, errors, comment) :
     t \in ReceiveTimes,
     facts \in {
       <<Velocity(Rat(10, 1), Rat(90, 1)), Velocity(Rat(20, 1), Rat(180, 1))>>,
       <<Altitude(Rat(1000, 1), TRUE), Status(<<"a">>), Altitude(Rat(500, 1), FALSE),
         Position(Rat(1, 1), Rat(2, 1)), Status(<<"b">>), Symbol(<<"/", ">">>),
         Position(Rat(3, 1), Rat(4, 1)), Symbol(<<"/", "-">>)>>,
       <<ObjectItemReport(FALSE, N0CALL, FALSE, <<>>),
         ObjectItemReport(FALSE, OBJ1, TRUE, <<Status(<<"c">>), KillObject>>),
         ObjectItemReport(TRUE, OBJ1, TRUE, <<Position(Rat(5, 1), Rat(6, 1))>>)>>,
       <<KillObject, Messaging(TRUE)>> },
     errors \in {<<>>, <<Err("first", <<>>), Err("second", <<"x">>)>>},
     comment \in {<<>>}}

Init ==
  /\ store = EmptyStore
  /\ prev = EmptyStore
  /\ msg = Idle
  /\ steps = 0
  /\ heap = <<>> /\ calls = <<>> /\ aprsis = <<>> /\ multimon = <<>>

\* a producer delivers (line, receive_time): the line is decoded and the message
\* dispatched; when the decoder raises, nothing reaches the store.  The host of
\* the store keeps UTC (offset 0).
Received(line, t, p, last) ==
  Outcome3(Some(line), t, 0, p.message, p.raised, "received",
           p.message # None /\ p.message = last)

Delivered(st, p) ==
  IF p.raised = "" THEN expand_aprs_message(p.message[1], st) ELSE st

ReceiveLine(line, t) ==
  /\ steps < MaxSteps
  /\ msg' = Received(line, t, parse_tnc2(line, t, 0), msg.message)
  /\ store' = Delivered(store, parse_tnc2(line, t, 0))
  /\ prev' = store
  /\ steps' = steps + 1
  /\ UNCHANGED <<heap, calls, aprsis, multimon>>

\* a caller dispatches a message of its own making
Dispatch(message) ==
  /\ steps < MaxSteps
  /\ msg' = Outcome3(None, message.receive_time, 0, Some(message), "", "dispatched",
                     Some(message) = msg.message)
  /\ store' = expand_aprs_message(message, store)
  /\ prev' = store
  /\ steps' = steps + 1
  /\ UNCHANGED <<heap, calls, aprsis, multimon>>

Next ==
  \/ \E line \in StoreLines, t \in ReceiveTimes : ReceiveLine(line, t)
  \/ \E message \in ConstructedMessages : Dispatch(message)

Spec == Init /\ [][Next]_vars


-----------------------------------------------------------------------------
(* One entity from its construction on, merging messages and being queried *)

\* APRSStation(object_id): the entity as __init__ leaves it
InitEntity ==
  /\ store \in {[id \in {object_id} |-> APRSStation(id)] : object_id \in {N0CALL, OBJ1}}
  /\ prev = store
  /\ msg = Idle
  /\ steps = 0
  /\ heap = <<>> /\ calls = <<>> /\ aprsis = <<>> /\ multimon = <<>>

\* entity.receive(message)
EntityReceive(message) ==
  /\ steps < MaxSteps
  /\ store' = [id \in DOMAIN store |-> receive(store[id], message)]
  /\ prev' = store
  /\ msg' = Outcome3(None, message.receive_time, 0, Some(message), "", "merged", FALSE)
  /\ steps' = steps + 1
  /\ UNCHANGED <<heap, calls, aprsis, multimon>>

\* entity.get_object_expiry() and entity.is_interesting(): what they return, and
\* TypeError when None + drop_unheard_timeout_seconds is evaluated
QueryEntity ==
  /\ msg.phase # "queried"
  /\ \E id \in DOMAIN store :
       msg' = [phase |-> "queried", message |-> None,
               expiry |-> get_object_expiry(store[id]),
               raised |-> IF get_object_expiry(store[id]) = None
                          THEN "TypeError" ELSE "",
               interesting |-> is_interesting(store[id])]
  /\ UNCHANGED <<store, prev, steps, heap, calls, aprsis, multimon>>

NextEntity ==
  \/ \E message \in ConstructedMessages : EntityReceive(message)
  \/ QueryEntity

SpecEntity == InitEntity /\ [][NextEntity]_vars

-----------------------------------------------------------------------------
(* The list objects of parse_tnc2 calls made by two producers at a time *)

\* lines the producers are given: a status report, a killed object, a Mic-E
\* report whose destination is not in the table, and a line without envelope
FeedLines ==
  { <<"N", "0", "C", "A", "L", "L", ">", "A", "P", "R", "S", ":", ">", "O", "n", " ", "t", "h", "e", " ", "a", "i", "r">>,
    <<"N", "0", "C", "A", "L", "L", ">", "A", "P", "R", "S", ":", ";", "O", "B", "J", "1", " ", " ", " ", " ", " ", "_", "0", "9", "2", "3", "4", "5", "z", "4", "9", "0", "3", ".", "5", "0", "N", "/", "0", "7", "2", "0", "1", ".", "7", "5", "W", "-">>,
    <<"N", "0", "C", "A", "L", "L", ">", "S", "3", "2", "u", "6", "T", ":", Grave, "(", "_", "f", "n", "\"", "O", "j", "/">>,
    <<"g", "a", "r", "b", "a", "g", "e", " ", "n", "o", " ", "c", "o", "l", "o", "n">> }

\* facts = [], errors = [], obj_facts = []: the identities of n new list objects
\* Allocate handing out the lists made first, as lists made once at import would be
Allocate_Reused(h, n) == [k \in 1..n |-> k]

Allocate(h, n) == [k \in 1..n |-> Len(h) + k]

\* the appends a call makes to its lists ids = <<facts, errors, obj_facts>> for
\* the given facts: the nested facts of an Object report go to obj_facts and
\* the report, holding that list, to facts
RECURSIVE FactAppends(_, _)
FactAppends(facts, ids) ==
  IF facts = <<>> THEN <<>>
  ELSE (IF Head(facts).type = "ObjectItemReport"
        THEN [k \in 1..Len(Head(facts).facts) |->
                [list |-> ids[3], item |-> Head(facts).facts[k]]]
             \o <<[list |-> ids[1], item |-> [Head(facts) EXCEPT !.facts = ids[3]]]>>
        ELSE <<[list |-> ids[1], item |-> Head(facts)]>>)
       \o FactAppends(Tail(facts), ids)

\* a call of parse_tnc2(line, t) that will return or raise p, with its lists
\* ids; obj_facts is created in the Object branch only
Entered(line, t, p, ids) ==
  [pc |-> "running", line |-> line, time |-> t,
   ids |-> IF p.raised = "" /\ \E k \in 1..Len(p.message[1].facts) :
                                 p.message[1].facts[k].type = "ObjectItemReport"
           THEN ids ELSE SubSeq(ids, 1, 2),
   todo |-> IF p.raised # "" THEN <<>>
            ELSE FactAppends(p.message[1].facts, ids)
                 \o [k \in 1..Len(p.message[1].errors) |->
                       [list |-> ids[2], item |-> p.message[1].errors[k]]],
   result |-> IF p.raised # "" THEN None
              ELSE Some([p.message[1] EXCEPT !.facts = ids[1], !.errors = ids[2]])]

InitCalls ==
  /\ store = EmptyStore
  /\ prev = EmptyStore
  /\ msg = Idle
  /\ steps = 0
  /\ heap = <<>>
  /\ calls = [running |-> [c \in {"reader", "demodulator"} |-> [pc |-> "idle"]],
              returned |-> <<>>]
  /\ aprsis = <<>> /\ multimon = <<>>

\* producer c calls parse_tnc2(line, t): the lists are created
Enter(c, line, t) ==
  /\ steps < MaxSteps
  /\ calls.running[c].pc = "idle"
  /\ calls' = [calls EXCEPT !.running[c] =
                 Entered(line, t, parse_tnc2(line, t, 0), Allocate(heap, 3))]
  /\ heap' = heap \o [k \in 1..Len(calls'.running[c].ids) |-> <<>>]
  /\ steps' = steps + 1
  /\ UNCHANGED <<store, prev, msg, aprsis, multimon>>

\* the call of producer c appends its next fact or error
AppendItem(c) ==
  /\ calls.running[c].pc = "running"
  /\ calls.running[c].todo # <<>>
  /\ heap' = [heap EXCEPT ![Head(calls.running[c].todo).list] =
                 Append(@, Head(calls.running[c].todo).item)]
  /\ calls' = [calls EXCEPT !.running[c].todo = Tail(@)]
  /\ UNCHANGED <<store, prev, msg, steps, aprsis, multimon>>

\* the call of producer c returns its APRSMessage, or has raised
Return(c) ==
  /\ calls.running[c].pc = "running"
  /\ calls.running[c].todo = <<>>
  /\ calls' = [calls EXCEPT
                 !.running[c] = [pc |-> "idle"],
                 !.returned = IF calls.running[c].result = None THEN @
                              ELSE Append(@, [line |-> calls.running[c].line,
                                              message |-> calls.running[c].result[1]])]
  /\ UNCHANGED <<store, prev, msg, steps, heap, aprsis, multimon>>

NextCalls ==
  \/ \E c \in DOMAIN calls.running, line \in FeedLines, t \in ReceiveTimes :
       Enter(c, line, t)
  \/ \E c \in DOMAIN calls.running : AppendItem(c)
  \/ \E c \in DOMAIN calls.running : Return(c)

SpecCalls == InitCalls /\ [][NextCalls]_vars

-----------------------------------------------------------------------------
(* The APRS-IS component: reader thread, reactor callbacks and its store *)

\* The component is itself the store (it extends TelemetryStore).  aprsis holds
\* its flag __alive, whether the reader thread is still in client.receive, the
\* calls handed to the reactor by callFromThread in the order they were made,
\* the callback the reactor is running, and three logs: the lines handed over,
\* the lines whose callback has ended, and the lines not handed over.
InitAPRSIS ==
  /\ store = EmptyStore
  /\ prev = EmptyStore
  /\ msg = Idle
  /\ steps = 0
  /\ heap = <<>> /\ calls = <<>> /\ multimon = <<>>
  /\ aprsis = [alive |-> TRUE, thread |-> "reading", queue |-> <<>>, running |-> None,
               received |-> <<>>, handled |-> <<>>, dropped |-> <<>>]

\* the reader thread running main_callback itself instead of queueing it
ThreadedCallback_Direct(line) ==
  /\ steps < MaxSteps
  /\ aprsis.thread = "reading"
  /\ store' = IF parse_tnc2(line, 1500000000, 0).raised = ""
              THEN StoreReceive(store, parse_tnc2(line, 1500000000, 0).message[1])
              ELSE store
  /\ aprsis' = [aprsis EXCEPT !.received = Append(@, line),
                              !.handled = Append(@, [line |-> line, time |-> 1500000000])]
  /\ prev' = store
  /\ msg' = [phase |-> "threaded", line |-> Some(line)]
  /\ steps' = steps + 1
  /\ UNCHANGED <<heap, calls, multimon>>

\* threaded_callback without the test of __alive
ThreadedCallback_Unguarded(line) ==
  /\ steps < MaxSteps
  /\ aprsis.thread = "reading"
  /\ aprsis' = [aprsis EXCEPT !.queue = Append(@, line), !.received = Append(@, line)]
  /\ prev' = store
  /\ msg' = [phase |-> "threaded", line |-> Some(line)]
  /\ steps' = steps + 1
  /\ UNCHANGED <<store, heap, calls, multimon>>

\* threaded_callback, called in the reader thread by client.receive with the
\* next line: StopIteration ends the thread once __alive is false, otherwise
\* callFromThread queues main_callback(line) for the reactor
ThreadedCallback(line) ==
  /\ steps < MaxSteps
  /\ aprsis.thread = "reading"
  /\ aprsis' = IF ~aprsis.alive
               THEN [aprsis EXCEPT !.thread = "stopped", !.dropped = Append(@, line)]
               ELSE [aprsis EXCEPT !.queue = Append(@, line),
                                   !.received = Append(@, line)]
  /\ prev' = store
  /\ msg' = [phase |-> "threaded", line |-> Some(line)]
  /\ steps' = steps + 1
  /\ UNCHANGED <<store, heap, calls, multimon>>

\* the reactor, running no callback, takes the oldest queued call:
\* main_callback up to message = parse_tnc2(line, time.time())
MainCallback(t) ==
  /\ aprsis.queue # <<>>
  /\ aprsis.running = None
  /\ aprsis' = [aprsis EXCEPT
                  !.queue = Tail(@),
                  !.running = Some([line |-> Head(aprsis.queue), time |-> t,
                                    p |-> parse_tnc2(Head(aprsis.queue), t, 0)])]
  /\ prev' = store
  /\ msg' = [phase |-> "parsed", line |-> Some(Head(aprsis.queue))]
  /\ UNCHANGED <<store, steps, heap, calls, multimon>>

\* the rest of main_callback: self.receive(message), which is
\* TelemetryStore.receive; when parse_tnc2 raised, the callback has ended
\* without it
MainCallbackReceive ==
  /\ aprsis.running # None
  /\ store' = IF aprsis.running[1].p.raised = ""
              THEN StoreReceive(store, aprsis.running[1].p.message[1])
              ELSE store
  /\ aprsis' = [aprsis EXCEPT
                  !.running = None,
                  !.handled = Append(@, [line |-> aprsis.running[1].line,
                                         time |-> aprsis.running[1].time])]
  /\ prev' = store
  /\ msg' = [phase |-> IF aprsis.running[1].p.raised = "" THEN "merged" ELSE "raised",
             line |-> Some(aprsis.running[1].line)]
  /\ UNCHANGED <<steps, heap, calls, multimon>>

\* close(), called between callbacks or while one runs
Close ==
  /\ aprsis.alive
  /\ aprsis' = [aprsis EXCEPT !.alive = FALSE]
  /\ prev' = store
  /\ msg' = [phase |-> "closed", line |-> None]
  /\ UNCHANGED <<store, steps, heap, calls, multimon>>

NextAPRSIS ==
  \/ \E line \in FeedLines : ThreadedCallback(line)
  \/ \E t \in ReceiveTimes : MainCallback(t)
  \/ MainCallbackReceive
  \/ Close

SpecAPRSIS == InitAPRSIS /\ [][NextAPRSIS]_vars

-----------------------------------------------------------------------------
(* The APRS demodulator of multimon.py: its squelch and its process protocol *)

\* number of output lines of the multimon-ng process in one run
MaxOutputLines == 3

\* lines of the process output, as the LineReceiver splits them
OutputLines ==
  { <<>>,
    <<"E", "n", "a", "b", "l", "e", "d", " ", "d", "e", "m", "o", "d", "u", "l", "a", "t", "o", "r", "s", ":", " ", "A", "F", "S", "K", "1", "2", "0", "0">>,
    <<"A", "P", "R", "S", ":", " ", "N", "0", "C", "A", "L", "L", ">", "A", "P", "R", "S", ":", ">", "O", "n", " ", "t", "h", "e", " ", "a", "i", "r">>,
    <<"A", "P", "R", "S", ":", " ", "N", "0", "C", "A", "L", "L", ">", "A", "P", "R", "S", ":", "_", "1", "0", "0", "9", "0", "5", "5", "6", "c", "2", "2", "0", "s", "0", "0", "4">>,
    <<"$", "U", "L", "T", "W", "0", "0", "3", "1">>,
    <<"N", "0", "C", "A", "L", "L", ">", "A", "P", "R", "S", ":", ">", "n", "o", " ", "p", "r", "e", "f", "i", "x">>,
    <<" ", "A", "P", "R", "S", ":", " ", "N", "0", "C", "A", "L", "L", ">", "A", "P", "R", "S", ":", ">", "x">> }

\* set_squelch with the matrix of mute for monitor
set_squelch_MonitorMuted(self, value) ==
  IF value \notin {"mute", "ctcss", "monitor"} THEN self
  ELSE IF Some(value) = self.squelch_mode THEN self
  ELSE [self EXCEPT !.squelch_mode = Some(value),
                    !.router = IF value = "ctcss" THEN << <<1, 0>> >> ELSE << <<0, 0>> >>]

\* APRSDemodulator.set_squelch; the strict enumeration type raises ValueError
\* for a value that is not one of its three, before anything is assigned
set_squelch(self, value) ==
  IF value \notin {"mute", "ctcss", "monitor"} THEN self
  ELSE IF Some(value) = self.squelch_mode THEN self
  ELSE [self EXCEPT !.squelch_mode = Some(value),
                    !.router = IF value = "mute" THEN << <<0, 0>> >>
                               ELSE IF value = "monitor" THEN << <<0, 1>> >>
                               ELSE << <<1, 0>> >>]

\* __lineReceived keeping the last line after it has been glued
lineReceived_KeepLast(self, line) ==
  IF line = <<>> THEN self
  ELSE IF StartsWith(line, <<"E", "n", "a", "b", "l", "e", "d", " ", "d", "e", "m", "o", "d", "u", "l", "a", "t", "o", "r", "s", ":">>)
  THEN self
  ELSE IF StartsWith(line, <<"$", "U", "L", "T", "W">>) /\ self.last_line # None
  THEN [self EXCEPT !.delivered = Append(@, self.last_line[1] \o line)]
  ELSE IF StartsWith(line, <<"A", "P", "R", "S", ":", " ">>)
  THEN [self EXCEPT !.last_line = Some(Drop(line, 6)),
                    !.delivered = Append(@, Drop(line, 6))]
  ELSE self

\* APRSProcessProtocol.__lineReceived; delivered is the sequence of the calls
\* of the target
lineReceived(self, line) ==
  IF line = <<>> THEN self
  ELSE IF StartsWith(line, <<"E", "n", "a", "b", "l", "e", "d", " ", "d", "e", "m", "o", "d", "u", "l", "a", "t", "o", "r", "s", ":">>)
  THEN self
  ELSE IF StartsWith(line, <<"$", "U", "L", "T", "W">>) /\ self.last_line # None
  THEN [self EXCEPT !.last_line = None,
                    !.delivered = Append(@, self.last_line[1] \o line)]
  ELSE IF StartsWith(line, <<"A", "P", "R", "S", ":", " ">>)
  THEN [self EXCEPT !.last_line = Some(Drop(line, 6)),
                    !.delivered = Append(@, Drop(line, 6))]
  ELSE self

\* APRSDemodulator.__init__: the protocol with no last line, squelch mode None
\* and the router [[0, 0]], then set_squelch(u'ctcss'); lines is the output
\* received so far
InitMultimon ==
  /\ store = EmptyStore
  /\ prev = EmptyStore
  /\ msg = Idle
  /\ steps = 0
  /\ heap = <<>> /\ calls = <<>> /\ aprsis = <<>>
  /\ multimon = set_squelch([squelch_mode |-> None, router |-> << <<0, 0>> >>,
                             last_line |-> None, delivered |-> <<>>, lines |-> <<>>],
                            "ctcss")

\* the LineReceiver hands the protocol the next line of output
LineReceived(line) ==
  /\ steps < MaxOutputLines
  /\ multimon' = [lineReceived(multimon, line) EXCEPT !.lines = Append(@, line)]
  /\ msg' = [phase |-> "line", line |-> Some(line)]
  /\ steps' = steps + 1
  /\ UNCHANGED <<store, prev, heap, calls, aprsis>>

\* a client sets the squelch mode
SetSquelch(value) ==
  /\ multimon' = set_squelch(multimon, value)
  /\ msg' = [phase |-> "set_squelch", value |-> value, before |-> multimon,
             raised |-> IF value \in {"mute", "ctcss", "monitor"} THEN ""
                        ELSE "ValueError"]
  /\ UNCHANGED <<store, prev, steps, heap, calls, aprsis>>

NextMultimon ==
  \/ \E line \in OutputLines : LineReceived(line)
  \/ \E value \in {"mute", "ctcss", "monitor", "open"} : SetSquelch(value)

SpecMultimon == InitMultimon /\ [][NextMultimon]_vars

-----------------------------------------------------------------------------
(* Properties of the decoder, checked under SpecDecode *)

\* the last operation was a decode of a line
IsDecoded == msg.phase = "decoded"

\* the decoded line
Line == msg.line[1]

\* The envelope grammar SOURCE>DESTINATION[,VIA]*:PAYLOAD stated on the line as
\* a whole: a '>' at i and a ':' at k with nothing but a non-empty source free
\* of ':', '>' and ',' before i, a non-empty destination after it, and between
\* the destination and k a via that is empty or a ',' and at least one more
\* character, none of them ':' or '>'.
InGrammar(line) ==
  \E i \in 2..Len(line), k \in 3..Len(line) :
    /\ i + 1 < k
    /\ line[i] = ">"
    /\ line[k] = ":"
    /\ \A j \in 1..(i - 1) : line[j] \notin {":", ">", ","}
    /\ \A j \in (i + 1)..(k - 1) : line[j] \notin {":", ">"}
    /\ line[i + 1] # ","
    /\ \A j \in (i + 1)..(k - 1) :
         (line[j] = "," /\ \A h \in (i + 1)..(j - 1) : line[h] # ",") => j + 1 < k

\* C1: for every line and every receive_time parse_tnc2 returns an APRSMessage
\* and raises no exception, whichever payload branch is taken.
C1_NeverRaises ==
  IsDecoded => (msg.raised = "" /\ msg.message # None)

GarbageNoColon ==
  <<"g", "a", "r", "b", "a", "g", "e", " ", "n", "o", " ", "c", "o", "l", "o", "n">>

DestinationOf(line) ==
  SubSeq(line, FirstIn(line, {">"}, 1) + 1,
         FirstIn(line, {",", ":"}, FirstIn(line, {">"}, 1)) - 1)

PayloadOf(line) == Drop(line, FirstIn(line, {":"}, 1))

\* C3: for a Mic-E payload (leading grave accent or apostrophe) and a destination
\* of six or more characters the Mic-E branch completes without raising.
C3_MicENeverRaises ==
  (/\ IsDecoded
   /\ InGrammar(Line)
   /\ Len(PayloadOf(Line)) >= 1
   /\ PayloadOf(Line)[1] \in {Grave, "'"}
   /\ Len(DestinationOf(Line)) >= 6)
  => msg.raised = ""

DoubleColonTelemetry ==
  <<"N", "0", "C", "A", "L", "L", ">", "A", "P", "R", "S", ":", ":", "T", "#", "0", "0", "5", ",", "1", "0", "0", ",", "0", "5", "0", ",", "0", "2", "5", ",", "0", "8", "0", ",", "0", "0", "5", ",", "0", "0", "0", "0", "0", "0", "0", "0">>

SingleColonTelemetry ==
  <<"N", "0", "C", "A", "L", "L", ">", "A", "P", "R", "S", ":", "T", "#", "0", "0", "5", ",", "1", "0", "0", ",", "0", "5", "0", ",", "0", "2", "5", ",", "0", "8", "0", ",", "0", "0", "5", ",", "0", "0", "0", "0", "0", "0", "0", "0">>

FiveChannels ==
  << Telemetry(1, Rat(100, 1)), Telemetry(2, Rat(50, 1)), Telemetry(3, Rat(25, 1)),
     Telemetry(4, Rat(80, 1)), Telemetry(5, Rat(5, 1)) >>

\* C4 as stated: the line with two colons after the destination decodes to
\* exactly five Telemetry facts, channels 1..5 with values 100, 50, 25, 80, 5,
\* and no error.
C4_DoubleColon ==
  (IsDecoded /\ Line = DoubleColonTelemetry) =>
    /\ msg.message # None
    /\ msg.message[1].facts = FiveChannels
    /\ msg.message[1].errors = <<>>

\* C4 amended: the line with one colon after the destination decodes to exactly
\* the five Telemetry facts and no error; with two colons the payload starts
\* with ':', which is no data type, so there is no fact and one error.
C4_SingleColon ==
  /\ (IsDecoded /\ Line = SingleColonTelemetry) =>
       /\ msg.message # None
       /\ msg.message[1].facts = FiveChannels
       /\ msg.message[1].errors = <<>>
       /\ msg.message[1].comment = <<>>
  /\ (IsDecoded /\ Line = DoubleColonTelemetry) =>
       /\ msg.message # None
       /\ msg.message[1].facts = <<>>
       /\ msg.message[1].errors = << <<"unrecognized data type: ", ":">> >>
       /\ msg.message[1].comment = PayloadOf(DoubleColonTelemetry)

\* C4 witness: the single-colon line has been decoded and carries five facts
C4_Witness ==
  /\ IsDecoded
  /\ Line = SingleColonTelemetry
  /\ msg.message # None
  /\ Len(msg.message[1].facts) = 5
  /\ msg.message[1].facts[5].type = "Telemetry"

\* a base91 digit: a character from '!' to '{'
IsBase91Digit(c) == Ord(c) >= 33 /\ Ord(c) <= 123

\* the line is a position report without timestamp whose data take the
\* compressed branch, with latitude and longitude fields of base91 digits
IsCompressedReport(line) ==
  /\ InGrammar(line)
  /\ Len(PayloadOf(line)) >= 14
  /\ PayloadOf(line)[1] \in {"!", "="}
  /\ ~(Len(PayloadOf(line)) >= 20 /\ IsDigit(PayloadOf(line)[2]))
  /\ \A j \in 3..10 : IsBase91Digit(PayloadOf(line)[j])

\* the value of a field of four base91 digits
RECURSIVE FieldValue(_)
FieldValue(field) ==
  IF Len(field) = 0 THEN 0
  ELSE 91 * FieldValue(Take(field, Len(field) - 1)) + (Ord(field[Len(field)]) - 33)

LatitudeField(line) == SubSeq(PayloadOf(line), 3, 6)

LongitudeField(line) == SubSeq(PayloadOf(line), 7, 10)

\* lo <= v <= hi for a float v = n/d
InRange(v, lo, hi) == v.b = 0 /\ v.d > 0 /\ lo * v.d <= v.n /\ v.n <= hi * v.d

\* the float v is p/q: v = n/d with d a divisor of q and n * (q/d) = p
IsQuotient(v, p, q) ==
  v.b = 0 /\ v.d > 0 /\ q % v.d = 0 /\ v.n * (q \div v.d) = p

\* the Position fact of a decoded position report: it follows the Messaging fact
ReportedPosition == msg.message[1].facts[2]

\* C5 as stated: every compressed position with fields of valid base91 digits
\* decodes to a latitude in [-90, 90] and a longitude in [-180, 180].
C5_AlwaysInRange ==
  (IsDecoded /\ IsCompressedReport(Line) /\ msg.message # None) =>
    /\ ReportedPosition.type = "Position"
    /\ InRange(ReportedPosition.latitude, -90, 90)
    /\ InRange(ReportedPosition.longitude, -180, 180)

\* C5 amended: the latitude is 90 - field/380926 and the longitude
\* -180 + field/190463; the latitude is at most 90 and the longitude at least
\* -180 for every field, and the latitude is at least -90 (the longitude at most
\* 180) exactly when the field value is at most 68566680.
C5_InRangeUpToLimit ==
  (IsDecoded /\ IsCompressedReport(Line) /\ msg.message # None) =>
    /\ ReportedPosition.type = "Position"
    /\ IsQuotient(ReportedPosition.latitude,
                  90 * 380926 - FieldValue(LatitudeField(Line)), 380926)
    /\ IsQuotient(ReportedPosition.longitude,
                  FieldValue(LongitudeField(Line)) - 180 * 190463, 190463)
    /\ InRange(ReportedPosition.latitude, -90, 90)
         <=> FieldValue(LatitudeField(Line)) <= 180 * 380926
    /\ InRange(ReportedPosition.longitude, -180, 180)
         <=> FieldValue(LongitudeField(Line)) <= 180 * 380926

\* C5 witness: a compressed position with the largest latitude field, 91^4 - 1,
\* has been decoded, and its latitude is below -90
C5_Witness ==
  /\ IsDecoded
  /\ IsCompressedReport(Line)
  /\ msg.message # None
  /\ LatitudeField(Line) = <<"{", "{", "{", "{">>
  /\ ~InRange(ReportedPosition.latitude, -90, 90)
  /\ InRange(ReportedPosition.longitude, -180, 180)

-----------------------------------------------------------------------------
(* Properties of the entities and the store, checked under Spec *)

\* the last operation handed a message to the store
IsMerged == msg.phase \in {"received", "dispatched"} /\ msg.message # None

\* that message
Message == msg.message[1]

IsReport(fact) == fact.type = "ObjectItemReport"

\* the names of the Object/Item reports of a message
ReportNames(m) ==
  {m.facts[i].name : i \in {j \in 1..Len(m.facts) : IsReport(m.facts[j])}}

\* the ids of the entities a dispatch of m merges something into
TouchedBy(m) == {m.source} \cup ReportNames(m)

\* the entity id as the last operation found it: fresh when it was not in the store
Before(id) == IF id \in DOMAIN prev THEN prev[id] ELSE APRSStation(id)

\* C6 as stated: after an entity merges a message without errors its
\* last_parse_error is empty, whatever was there; after one with errors it is
\* the text of that message's errors.
C6_ErrorCleared ==
  IsMerged =>
    \A id \in TouchedBy(Message) :
      /\ id \in DOMAIN store
      /\ store[id].last_parse_error =
           IF Message.errors = <<>> THEN <<>> ELSE Join(Message.errors)

\* C6 amended: after an entity merges a message without errors its
\* last_parse_error is what it was before the merge; after one with errors it
\* is the text of that message's errors only.
C6_ErrorKept ==
  IsMerged =>
    \A id \in TouchedBy(Message) :
      /\ id \in DOMAIN store
      /\ store[id].last_parse_error =
           IF Message.errors = <<>> THEN Before(id).last_parse_error
           ELSE Join(Message.errors)

\* C6 witness: a message without errors was merged into an entity that still
\* shows the error text of an earlier message
C6_Witness ==
  /\ IsMerged
  /\ Message.errors = <<>>
  /\ Message.source \in DOMAIN prev
  /\ prev[Message.source].last_parse_error # <<>>
  /\ store[Message.source].last_parse_error = prev[Message.source].last_parse_error

\* fact i of m is the last report of m for its name, and is not live
IsFinalKill(m, i) ==
  /\ IsReport(m.facts[i])
  /\ ~m.facts[i].live
  /\ \A j \in (i + 1)..Len(m.facts) :
       IsReport(m.facts[j]) => m.facts[j].name # m.facts[i].name

\* C7: after a report with live = False for name N is dispatched, whatever the
\* receive_time and the history of N, the entity N is in the store, nothing was
\* removed, its last_heard_time is the sentinel 0 and its expiry, 0 + 1800, lies
\* before the receive_time.
C7_KilledExpired ==
  IsMerged =>
    /\ DOMAIN prev \subseteq DOMAIN store
    /\ \A i \in 1..Len(Message.facts) :
         IsFinalKill(Message, i) =>
           /\ Message.facts[i].name \in DOMAIN store
           /\ store[Message.facts[i].name].last_heard_time = Some(0)
           /\ get_object_expiry(store[Message.facts[i].name])
                = Some(drop_unheard_timeout_seconds)
           /\ get_object_expiry(store[Message.facts[i].name])[1] < Message.receive_time

\* C7 witness: an object that had been heard alive was reported dead and now
\* carries the sentinel
C7_Witness ==
  /\ IsMerged
  /\ \E i \in 1..Len(Message.facts) :
       /\ IsFinalKill(Message, i)
       /\ Message.facts[i].name \in DOMAIN prev
       /\ prev[Message.facts[i].name].last_heard_time \notin {None, Some(0)}
       /\ store[Message.facts[i].name].last_heard_time = Some(0)

\* the message synthesized for a report: the report's name as source, the same
\* receive_time, the nested facts of a live report and one KillObject otherwise
Synthetic(m, fact) ==
  [m EXCEPT !.source = fact.name, !.destination = None, !.via = None,
            !.payload = None,
            !.facts = IF fact.live THEN fact.facts ELSE <<KillObject>>]

\* the messages a dispatch of m hands to the entity id, in order, from the
\* message itself and the first n facts
RECURSIVE MessagesFor(_, _, _)
MessagesFor(m, id, n) ==
  IF n = 0 THEN (IF m.source = id THEN <<m>> ELSE <<>>)
  ELSE MessagesFor(m, id, n - 1)
       \o (IF IsReport(m.facts[n]) /\ m.facts[n].name = id
           THEN <<Synthetic(m, m.facts[n])>>
           ELSE <<>>)

\* an entity after merging messages one after the other
RECURSIVE MergeAll(_, _)
MergeAll(entity, messages) ==
  IF messages = <<>> THEN entity
  ELSE MergeAll(receive(entity, Head(messages)), Tail(messages))

\* C8: a dispatch merges the message into the entity of its source and then, in
\* fact order, one synthetic message per report into the entity of the report's
\* name; entities are created on first sight and no other entity changes.
C8_DispatchOrder ==
  IsMerged =>
    /\ DOMAIN store = DOMAIN prev \cup TouchedBy(Message)
    /\ \A id \in DOMAIN store :
         store[id] = MergeAll(Before(id), MessagesFor(Message, id, Len(Message.facts)))

\* C8 witness: a station reported an object of its own name dead, so that its
\* entity merged the message first and the kill after it, next to an entity that
\* was left alone
C8_Witness ==
  /\ IsMerged
  /\ Len(MessagesFor(Message, Message.source, Len(Message.facts))) = 2
  /\ store[Message.source].last_heard_time = Some(0)
  /\ Message.source \notin DOMAIN prev
  /\ \E id \in DOMAIN prev : id \notin TouchedBy(Message) /\ store[id] = prev[id]

\* C9: merging a message a second time into entities that were fresh before the
\* first merge changes no field of any of them.
C9_Idempotent ==
  (IsMerged /\ steps = 2 /\ msg.repeat) => store = prev

\* C9 witness: a message with facts and errors was merged twice into a fresh entity
C9_Witness ==
  /\ IsMerged
  /\ steps = 2
  /\ msg.repeat
  /\ Message.errors # <<>>
  /\ \E i \in 1..Len(Message.facts) : Message.facts[i].type = "Velocity"
  /\ store[Message.source].track.h_speed # None
  /\ store = prev

\* the last fact of the given type in facts, None when there is none
LastOfType(facts, type) ==
  IF \E i \in 1..Len(facts) : facts[i].type = type
  THEN Some(facts[CHOOSE i \in 1..Len(facts) :
                    /\ facts[i].type = type
                    /\ \A j \in (i + 1)..Len(facts) : facts[j].type # type])
  ELSE None

\* the float v is the float a times p/q
IsScaled(v, a, p, q) ==
  /\ v.b = a.b /\ v.e = a.e /\ v.o = a.o
  /\ IsQuotient([v EXCEPT !.b = 0], a.n * p, a.d * q)

\* item is the value stamped with time t
IsStamped(item, t) == item # None /\ item[1].timestamp = t

\* each field of entity e is set by the last fact f of its kind in the merged
\* message, stamped with t, and is as in b when the message has no such fact
VelocityWins(e, b, f, t) ==
  IF f = None
  THEN e.track.h_speed = b.track.h_speed /\ e.track.track_angle = b.track.track_angle
  ELSE /\ IsStamped(e.track.h_speed, t)
       /\ IsScaled(e.track.h_speed[1].value, f[1].speed_knots, 463, 900)
       /\ e.track.track_angle = Some(TelemetryItem(f[1].course_degrees, t))

PositionWins(e, b, f, t) ==
  IF f = None
  THEN e.track.latitude = b.track.latitude /\ e.track.longitude = b.track.longitude
  ELSE /\ e.track.latitude = Some(TelemetryItem(f[1].latitude, t))
       /\ e.track.longitude = Some(TelemetryItem(f[1].longitude, t))

AltitudeWins(e, b, f, t) ==
  IF f = None THEN e.track.altitude = b.track.altitude
  ELSE /\ IsStamped(e.track.altitude, t)
       /\ IF f[1].feet_not_meters
          THEN IsScaled(e.track.altitude[1].value, f[1].value, 381, 1250)
          ELSE e.track.altitude[1].value = f[1].value

StatusWins(e, b, f) == e.status = IF f = None THEN b.status ELSE f[1].text

SymbolWins(e, b, f) == e.symbol = IF f = None THEN b.symbol ELSE f[1].id

\* C10: last applied wins.  After a message is merged into the entity of its
\* source, h_speed and track_angle hold the values of the last Velocity fact of
\* that message stamped with its receive_time, whatever an earlier message left
\* there, and so for every other field; a field no fact of the message sets is
\* as the earlier messages left it.
C10_LastAppliedWins ==
  (IsMerged /\ Message.source \notin ReportNames(Message)) =>
    /\ Message.source \in DOMAIN store
    /\ VelocityWins(store[Message.source], Before(Message.source),
                    LastOfType(Message.facts, "Velocity"), Message.receive_time)
    /\ PositionWins(store[Message.source], Before(Message.source),
                    LastOfType(Message.facts, "Position"), Message.receive_time)
    /\ AltitudeWins(store[Message.source], Before(Message.source),
                    LastOfType(Message.facts, "Altitude"), Message.receive_time)
    /\ StatusWins(store[Message.source], Before(Message.source),
                  LastOfType(Message.facts, "Status"))
    /\ SymbolWins(store[Message.source], Before(Message.source),
                  LastOfType(Message.facts, "Symbol"))

\* C10 witness: an entity holding a velocity stamped t1 merged, at t2 > t1, a
\* message with two Velocity facts, and now holds the second one stamped t2
C10_Witness ==
  /\ IsMerged
  /\ Message.source \in DOMAIN prev
  /\ Len(Message.facts) = 2
  /\ Message.facts[1].type = "Velocity"
  /\ Message.facts[2].type = "Velocity"
  /\ Message.facts[1] # Message.facts[2]
  /\ IsStamped(prev[Message.source].track.h_speed, 1456790399)
  /\ Message.receive_time = 1500000000
  /\ prev[Message.source].track.track_angle[1].value # Message.facts[2].course_degrees
  /\ store[Message.source].track.track_angle
       = Some(TelemetryItem(Message.facts[2].course_degrees, 1500000000))


\* none of the messages carries a fact of the given type
NoFact(messages, type) ==
  \A i \in 1..Len(messages) :
    \A j \in 1..Len(messages[i].facts) : messages[i].facts[j].type # type

\* entity e, which was b before it merged the messages, kept every field that no
\* fact of the messages sets, and took the comment
FrameKept(e, b, messages, comment) ==
  /\ NoFact(messages, "Status") => e.status = b.status
  /\ NoFact(messages, "Symbol") => e.symbol = b.symbol
  /\ NoFact(messages, "Position") =>
       e.track.latitude = b.track.latitude /\ e.track.longitude = b.track.longitude
  /\ NoFact(messages, "Altitude") => e.track.altitude = b.track.altitude
  /\ NoFact(messages, "Velocity") =>
       e.track.h_speed = b.track.h_speed /\ e.track.track_angle = b.track.track_angle
  /\ e.last_comment = comment

\* C11: merging messages without a Status fact leaves the entity's status as it
\* was, and so for Symbol and symbol and for Position, Altitude and Velocity and
\* their track fields; last_comment is the comment of the message after every
\* merge, the empty comment included.
C11_FrameAndComment ==
  IsMerged =>
    \A id \in TouchedBy(Message) :
      /\ id \in DOMAIN store
      /\ FrameKept(store[id], Before(id),
                   MessagesFor(Message, id, Len(Message.facts)), Message.comment)

\* C11 witness: an entity with a symbol, a position and a comment merged a
\* message with an empty comment and none of the five kinds of fact; symbol and
\* track are as before and the comment is empty
C11_Witness ==
  /\ IsMerged
  /\ Message.source \in DOMAIN prev
  /\ Message.comment = <<>>
  /\ Message.facts # <<>>
  /\ \A type \in {"Status", "Symbol", "Position", "Altitude", "Velocity"} :
       NoFact(<<Message>>, type)
  /\ prev[Message.source].symbol # <<>>
  /\ prev[Message.source].track.latitude # None
  /\ prev[Message.source].last_comment # <<>>
  /\ store[Message.source].symbol = prev[Message.source].symbol
  /\ store[Message.source].track = prev[Message.source].track
  /\ store[Message.source].last_comment = <<>>

-----------------------------------------------------------------------------
(* More properties of the decoder, checked under SpecDecode *)

\* the positions of the characters of line that are in set
PositionsOf(line, set) == {i \in 1..Len(line) : line[i] \in set}

\* no character of text is in set
FreeOf(text, set) == \A i \in 1..Len(text) : text[i] \notin set

\* line splits at the '>' at i, the end of the destination before j and the
\* ':' at k into a source, a destination, a via and a payload of the grammar
IsSplit(line, i, j, k) ==
  /\ 1 < i /\ i + 1 < j /\ j <= k
  /\ FreeOf(SubSeq(line, 1, i - 1), {":", ">", ","})
  /\ FreeOf(SubSeq(line, i + 1, j - 1), {":", ">", ","})
  /\ FreeOf(SubSeq(line, j, k - 1), {":", ">"})
  /\ (j < k => (line[j] = "," /\ j + 1 < k))

\* message m has the parts of that split
HasParts(m, line, i, j, k) ==
  /\ m.source = SubSeq(line, 1, i - 1)
  /\ m.destination = SubSeq(line, i + 1, j - 1)
  /\ m.via = SubSeq(line, j, k - 1)
  /\ m.payload = SubSeq(line, k + 1, Len(line))

\* C13: the split of a line of the envelope grammar is unique and lossless.
\* Whatever split of the line the grammar admits, the message has its parts; the
\* source is the text before the first '>' and the payload the text after the
\* first ':'; source and destination hold no ':', '>' or ','; and source, '>',
\* destination, via, ':' and payload put together are the line.
C13_SplitLossless ==
  (IsDecoded /\ InGrammar(Line) /\ msg.message # None) =>
    /\ \A i \in PositionsOf(Line, {">"}), k \in PositionsOf(Line, {":"}) :
         \A j \in (i + 2)..k :
           IsSplit(Line, i, j, k) => HasParts(msg.message[1], Line, i, j, k)
    /\ msg.message[1].source = Take(Line, FirstIn(Line, {">"}, 1) - 1)
    /\ msg.message[1].payload = PayloadOf(Line)
    /\ msg.message[1].source # <<>>
    /\ msg.message[1].destination # <<>>
    /\ FreeOf(msg.message[1].source, {":", ">", ","})
    /\ FreeOf(msg.message[1].destination, {":", ">", ","})
    /\ msg.message[1].source \o <<">">> \o msg.message[1].destination
         \o msg.message[1].via \o <<":">> \o msg.message[1].payload = Line

\* C13 witness: a line with a via of two elements and a payload that itself
\* holds a '>' has been decoded and split
C13_Witness ==
  /\ IsDecoded
  /\ InGrammar(Line)
  /\ msg.message # None
  /\ Cardinality(PositionsOf(msg.message[1].via, {","})) = 2
  /\ PositionsOf(msg.message[1].payload, {">"}) # {}
  /\ msg.message[1].source = N0CALL
  /\ msg.message[1].destination = APRS

\* the first characters of the payloads that have a decoder
DataTypes == {"!", "=", "/", "@", "<", ">", Grave, "'", ";", "T"}

\* the decoded line is of the grammar and its payload begins with some other character
IsUnrecognized ==
  /\ IsDecoded
  /\ InGrammar(Line)
  /\ Len(PayloadOf(Line)) >= 1
  /\ PayloadOf(Line)[1] \notin DataTypes

\* C14: a non-empty payload whose first character is none of ! = / @ < > ` ' ; T
\* decodes to no fact and exactly one error, "unrecognized data type" with that
\* character, and the payload is the comment, character for character.
C14_Unrecognized ==
  IsUnrecognized =>
    /\ msg.raised = ""
    /\ msg.message # None
    /\ msg.message[1].facts = <<>>
    /\ msg.message[1].errors = << <<"unrecognized data type: ", PayloadOf(Line)[1]>> >>
    /\ msg.message[1].comment = PayloadOf(Line)
    /\ msg.message[1].payload = PayloadOf(Line)

\* C14 witness: a payload of several characters that begins with '}' and goes
\* on with ':', '>' and ',' has been decoded and is the comment
C14_Witness ==
  /\ IsUnrecognized
  /\ msg.message # None
  /\ PayloadOf(Line) = <<"}", "a", "b", "c", ":", ">", ",">>
  /\ msg.message[1].comment = PayloadOf(Line)
  /\ Len(msg.message[1].errors) = 1
  /\ msg.message[1].facts = <<>>

\* the decoded line is of the grammar and its payload has the T# layout
IsTelemetryReport ==
  /\ IsDecoded
  /\ InGrammar(Line)
  /\ TelemetryMatch(PayloadOf(Line)) # None

\* the error of channel ch for the field text
ChannelError(ch, text) ==
  <<"Telemetry channel did not parse: ", Ascii[17 + ch]>> \o text

\* channel ch, whose field parsed as value (None when it did not), has its one
\* fact and no error, or its one error and no fact
ChannelDecoded(m, ch, text, value) ==
  /\ Cardinality({i \in 1..Len(m.facts) : m.facts[i].channel = ch})
       = IF value = None THEN 0 ELSE 1
  /\ Cardinality({i \in 1..Len(m.errors) : m.errors[i] = ChannelError(ch, text)})
       = IF value = None THEN 1 ELSE 0
  /\ value # None => \E i \in 1..Len(m.facts) : m.facts[i] = Telemetry(ch, value[1])

\* the five fields a of a telemetry report are decoded one by one into m
FieldsDecoded(m, a) ==
  /\ Len(m.facts) + Len(m.errors) = 5
  /\ \A i \in 1..Len(m.facts) : m.facts[i].type = "Telemetry"
  /\ \A i \in 1..Len(m.facts) : \A j \in (i + 1)..Len(m.facts) :
       m.facts[i].channel < m.facts[j].channel
  /\ \A ch \in 1..5 : ChannelDecoded(m, ch, a[ch], ParseFloat(a[ch]))

\* C15: the five analog fields of a telemetry report are decoded independently.
\* A field that parses as a number gives one Telemetry fact with its channel, a
\* field that does not gives one error and no fact; facts and errors are five
\* together, the facts are in increasing channel order, and a channel in error
\* takes no other channel with it.
C15_FiveChannels ==
  IsTelemetryReport =>
    /\ msg.raised = ""
    /\ msg.message # None
    /\ FieldsDecoded(msg.message[1], TelemetryMatch(PayloadOf(Line))[1].a)

\* C15 witness: a report whose channels 1 and 5 do not parse and whose channels
\* 2, 3 and 4 do has been decoded to three facts and two errors
C15_Witness ==
  /\ IsTelemetryReport
  /\ msg.message # None
  /\ Len(msg.message[1].facts) = 3
  /\ Len(msg.message[1].errors) = 2
  /\ msg.message[1].facts[1].channel = 2
  /\ msg.message[1].facts[3].channel = 4
  /\ msg.message[1].errors[1] = ChannelError(1, <<"a", "b", "c">>)
  /\ msg.message[1].errors[2] = ChannelError(5, <<"x">>)

\* the decoded line is of the grammar and its payload begins with a Mic-E marker
IsMicE ==
  /\ IsDecoded
  /\ InGrammar(Line)
  /\ Len(PayloadOf(Line)) >= 1
  /\ PayloadOf(Line)[1] \in {Grave, "'"}

\* C16: a Mic-E payload with fewer than 8 characters after the marker, or with
\* a destination of fewer than 6 characters, decodes to exactly one error and no
\* fact, and the payload is the comment, unmodified.
C16_MicETooShort ==
  (IsMicE /\ (Len(PayloadOf(Line)) - 1 < 8 \/ Len(DestinationOf(Line)) < 6)) =>
    /\ msg.raised = ""
    /\ msg.message # None
    /\ msg.message[1].facts = <<>>
    /\ Len(msg.message[1].errors) = 1
    /\ msg.message[1].errors[1] =
         IF Len(PayloadOf(Line)) - 1 < 8
         THEN <<"Mic-E Information is too short">>
         ELSE <<"Mic-E Destination Address is too short">>
    /\ msg.message[1].comment = PayloadOf(Line)

\* C16 witness: a Mic-E payload of full length sent to a destination of five
\* characters has been decoded to the destination error
C16_Witness ==
  /\ IsMicE
  /\ Len(PayloadOf(Line)) - 1 >= 8
  /\ Len(DestinationOf(Line)) = 5
  /\ msg.message # None
  /\ msg.message[1].facts = <<>>
  /\ msg.message[1].errors = << <<"Mic-E Destination Address is too short">> >>
  /\ msg.message[1].comment = PayloadOf(Line)

\* the decoded line is a position report without timestamp in the uncompressed
\* layout: a digit, and eighteen more characters at least
IsUncompressedReport ==
  /\ IsDecoded
  /\ InGrammar(Line)
  /\ Len(PayloadOf(Line)) >= 20
  /\ PayloadOf(Line)[1] \in {"!", "="}
  /\ IsDigit(PayloadOf(Line)[2])

\* text is an angle: one to three digits of degrees, minutes as two characters,
\* a point and two characters, each a digit or a space, and a hemisphere letter
IsAngle(text) ==
  \E n \in 1..3 :
    /\ Len(text) = n + 6
    /\ \A i \in 1..n : IsDigit(text[i])
    /\ \A i \in {n + 1, n + 2, n + 4, n + 5} : IsDigit(text[i]) \/ text[i] = " "
    /\ text[n + 3] = "."
    /\ text[n + 6] \in {"N", "E", "S", "W"}

\* message m of the uncompressed report with fields lat and lon, the two symbol
\* characters and a remainder that the data extension decoder and the altitude
\* scan, given empty lists, turn into tail: the Position fact is there exactly
\* when both is TRUE, the one error exactly when it is not, the Symbol fact
\* follows, and facts, errors and comment end as in tail
UncompressedDecoded(m, both, lat, lon, symbol, tail) ==
  /\ Len(m.facts) >= 2
  /\ m.facts[1].type = "Messaging"
  /\ (m.facts[2].type = "Position") <=> both
  /\ (\E i \in 1..Len(m.facts) : m.facts[i].type = "Position") <=> both
  /\ Len(m.facts) >= (IF both THEN 3 ELSE 2)
  /\ m.facts[IF both THEN 3 ELSE 2] = Symbol(symbol)
  /\ Drop(m.facts, IF both THEN 3 ELSE 2) = tail.facts
  /\ m.errors = (IF both THEN <<>>
                 ELSE << <<"lat/lon does not parse: ">> \o lat \o <<",">> \o lon >>)
                \o tail.errors
  /\ m.comment = tail.comment

\* C17: an uncompressed position report has a Position fact if and only if its
\* latitude and its longitude field both parse; when one of them does not there
\* is exactly one error for it and no Position fact, and in either case the
\* Symbol fact is there and the remainder goes through the data extension
\* decoder and the comment altitude scan.
C17_PositionIffBothParse ==
  IsUncompressedReport =>
    /\ msg.raised = ""
    /\ msg.message # None
    /\ UncompressedDecoded(
         msg.message[1],
         IsAngle(SubSeq(PayloadOf(Line), 2, 9)) /\ IsAngle(SubSeq(PayloadOf(Line), 11, 19)),
         SubSeq(PayloadOf(Line), 2, 9),
         SubSeq(PayloadOf(Line), 11, 19),
         <<PayloadOf(Line)[10], PayloadOf(Line)[20]>>,
         AfterExtension(_parse_data_extension(
           <<>>, <<>>, Drop(PayloadOf(Line), 20),
           <<PayloadOf(Line)[10], PayloadOf(Line)[20]>>)))

\* C17 witness: a report whose latitude does not parse and whose longitude
\* does, followed by a course/speed extension and an altitude in the comment,
\* has been decoded to one error, a Symbol, a Velocity and an Altitude fact and
\* no Position fact
C17_Witness ==
  /\ IsUncompressedReport
  /\ msg.message # None
  /\ ~IsAngle(SubSeq(PayloadOf(Line), 2, 9))
  /\ IsAngle(SubSeq(PayloadOf(Line), 11, 19))
  /\ Len(msg.message[1].errors) = 1
  /\ Len(msg.message[1].facts) = 4
  /\ msg.message[1].facts[2].type = "Symbol"
  /\ msg.message[1].facts[3].type = "Velocity"
  /\ msg.message[1].facts[4].type = "Altitude"
  /\ msg.message[1].comment = <<"x", "y">>

-----------------------------------------------------------------------------
(* Further properties of the decoder, checked under SpecDecode *)

\* the data extension patterns that text data matches under the symbol
ExtensionPatterns(data, symbol) ==
  LET digits(from, to) == \A i \in from..to : IsDigit(data[i])
      starts(a, b, c) == data[1] = a /\ data[2] = b /\ data[3] = c
  IN IF Len(data) < 7 THEN {}
     ELSE {k \in {"course/speed", "PHG", "RNG", "DFS", "area"} :
             \/ k = "course/speed" /\ digits(1, 3) /\ data[4] = "/" /\ digits(5, 7)
                /\ symbol # <<"\\", "l">>
             \/ k = "PHG" /\ starts("P", "H", "G") /\ digits(4, 7)
             \/ k = "RNG" /\ starts("R", "N", "G") /\ digits(4, 7)
             \/ k = "DFS" /\ starts("D", "F", "S") /\ digits(4, 7)
             \/ k = "area" /\ digits(1, 3) /\ data[4] \in {"/", "1"} /\ digits(5, 7)}

\* the first pattern, in the decoder's order, that is in the set
FirstPattern(patterns) ==
  LET order == <<"course/speed", "PHG", "RNG", "DFS", "area">>
  IN IF patterns = {} THEN "none"
     ELSE order[CHOOSE i \in 1..5 : order[i] \in patterns
                                    /\ \A j \in 1..(i - 1) : order[j] \notin patterns]

\* the Velocity and RadioRange facts of a message, and its errors saying that
\* an extension is not implemented
ExtensionFacts(m) ==
  LET IsExt(f) == f.type \in {"Velocity", "RadioRange"} IN SelectSeq(m.facts, IsExt)

ExtensionErrors(m) ==
  LET IsExt(e) == e \in {<<"PHG parsing not implemented">>,
                         <<"DFS parsing not implemented">>,
                         <<"Area object not implemented">>}
  IN SelectSeq(m.errors, IsExt)

\* message m of an uncompressed report whose text after the symbol is data and
\* whose first matching pattern is kind: the one outcome of that pattern, and
\* the comment (before the altitude scan) is data without its first 7
\* characters; for no pattern, no outcome and the comment is data
ExtensionDecoded(m, data, kind) ==
  /\ ExtensionFacts(m) =
       (IF kind = "course/speed"
        THEN <<Velocity(Rat(ToInt(SubSeq(data, 5, 7)), 1), Rat(ToInt(SubSeq(data, 1, 3)), 1))>>
        ELSE IF kind = "RNG" THEN <<RadioRange(Rat(ToInt(SubSeq(data, 4, 7)), 1))>>
        ELSE <<>>)
  /\ ExtensionErrors(m) =
       (IF kind = "PHG" THEN << <<"PHG parsing not implemented">> >>
        ELSE IF kind = "DFS" THEN << <<"DFS parsing not implemented">> >>
        ELSE IF kind = "area" THEN << <<"Area object not implemented">> >>
        ELSE <<>>)
  /\ m.comment = _parse_comment_altitude(
                   <<>>, <<>>, IF kind = "none" THEN data ELSE Drop(data, 7)).comment

\* C21: in an uncompressed position report the text after the symbol is decoded
\* by the first of the patterns course/speed, PHG, RNG, DFS, area object that
\* matches: exactly 7 characters are consumed and exactly one Velocity fact,
\* RadioRange fact or "not implemented" error is produced; with no match or
\* fewer than 7 characters the text is left whole with no fact and no error; and
\* under the area object symbol there is no Velocity fact.
C21_FirstExtensionWins ==
  IsUncompressedReport =>
    /\ msg.raised = ""
    /\ msg.message # None
    /\ ExtensionDecoded(
         msg.message[1], Drop(PayloadOf(Line), 20),
         FirstPattern(ExtensionPatterns(Drop(PayloadOf(Line), 20),
                                        <<PayloadOf(Line)[10], PayloadOf(Line)[20]>>)))
    /\ Len(ExtensionFacts(msg.message[1])) + Len(ExtensionErrors(msg.message[1])) <= 1
    /\ <<PayloadOf(Line)[10], PayloadOf(Line)[20]>> = <<"\\", "l">> =>
         \A i \in 1..Len(msg.message[1].facts) : msg.message[1].facts[i].type # "Velocity"

\* C21 witness: a text that matches both the course/speed and the area object
\* pattern, under a symbol that is not the area object, has been decoded to a
\* Velocity fact and no error, seven characters consumed
C21_Witness ==
  /\ IsUncompressedReport
  /\ msg.message # None
  /\ ExtensionPatterns(Drop(PayloadOf(Line), 20),
                       <<PayloadOf(Line)[10], PayloadOf(Line)[20]>>)
       = {"course/speed", "area"}
  /\ ExtensionFacts(msg.message[1]) = <<Velocity(Rat(234, 1), Rat(312, 1))>>
  /\ msg.message[1].errors = <<>>
  /\ msg.message[1].comment = <<"T", "e", "s", "t">>

\* the last operation decoded a position report that the decoder takes as a
\* compressed one: 13 or more characters, and not a digit followed by 18 more
TakesCompressedBranch ==
  /\ IsDecoded
  /\ InGrammar(Line)
  /\ Len(PayloadOf(Line)) >= 14
  /\ PayloadOf(Line)[1] \in {"!", "="}
  /\ ~(IsDigit(PayloadOf(Line)[2]) /\ Len(PayloadOf(Line)) >= 20)

\* the extra fact of the bytes c, s and a compression type byte of value bits,
\* by the precedence altitude, space, radio range, course/speed
CompressedExtra(c, s, bits) ==
  IF bits % 32 \in 16..23
  THEN <<Altitude(Pow(1002, _parse_base91(<<c, s>>), 0), TRUE)>>
  ELSE IF c = " " THEN <<>>
  ELSE IF c = "{" THEN <<RadioRange(Pow(1080, _parse_base91(<<s>>), 0))>>
  ELSE IF Ord(c) - 33 \in 0..89
  THEN <<Velocity(Pow(1080, _parse_base91(<<s>>), -1), Rat((Ord(c) - 33) * 4, 1))>>
  ELSE <<>>

\* message m has the facts of a compressed report in their order: the Position,
\* the Symbol, then the extra facts
CompressedDecoded(m, symbol, extra) ==
  /\ Len(m.facts) = 3 + Len(extra)
  /\ m.facts[1].type = "Messaging"
  /\ m.facts[2].type = "Position"
  /\ m.facts[3] = Symbol(symbol)
  /\ Drop(m.facts, 3) = extra
  /\ Len(extra) <= 1

HasTimeField ==
  /\ IsDecoded
  /\ InGrammar(Line)
  /\ Len(PayloadOf(Line)) >= 8
  /\ \/ PayloadOf(Line)[1] \in {"/", "@"}
     \/ /\ PayloadOf(Line)[1] = ";"
        /\ Len(PayloadOf(Line)) >= 18
        /\ PayloadOf(Line)[11] \in {"*", "_"}

TimeFieldOf(payload) ==
  IF payload[1] = ";" THEN SubSeq(payload, 12, 18) ELSE SubSeq(payload, 2, 8)

PositionTextOf(payload) ==
  IF payload[1] = ";" THEN Drop(payload, 18) ELSE Drop(payload, 8)

\* field is six digits and z, h or /, and names a time of the calendar: hour,
\* minute and second for h; for z and / a day of the month of today (UTC for
\* z, local time for /), an hour and a minute
IsCalendarTime(field, today, n1, n2, n3) ==
  /\ \A i \in 1..6 : IsDigit(field[i])
  /\ field[7] \in {"z", "h", "/"}
  /\ IF field[7] = "h"
     THEN n1 <= 23 /\ n2 <= 59 /\ n3 <= 59
     ELSE /\ 1 <= n1
          /\ n1 <= DaysInMonth(today.year, today.month)
          /\ n2 <= 23
          /\ n3 <= 59

\* the facts next to the timestamp: those of the message after its Messaging
\* fact, or those inside the one ObjectItemReport of an object report
TimedFacts(m, payload) ==
  IF payload[1] = ";" THEN m.facts[1].facts ELSE Tail(m.facts)

\* facts and errors are one Timestamp fact (when ok) or one timestamp error
\* (when not), followed by what the position decoder made of the rest
TimestampDecoded(facts, errors, comment, ok, pos) ==
  /\ Len(facts) = Len(pos.facts) + (IF ok THEN 1 ELSE 0)
  /\ ok => facts[1].type = "Timestamp"
  /\ Drop(facts, IF ok THEN 1 ELSE 0) = pos.facts
  /\ \A i \in 1..Len(pos.facts) : pos.facts[i].type # "Timestamp"
  /\ Len(errors) = Len(pos.errors) + (IF ok THEN 0 ELSE 1)
  /\ ~ok => errors[1][1] \in {"DHM/HMS timestamp does not parse",
                              "DHM/HMS timestamp invalid: "}
  /\ Drop(errors, IF ok THEN 0 ELSE 1) = pos.errors
  /\ comment = pos.comment

\* C23: in a position with timestamp or an object report that decodes to a
\* message, a timestamp field that is not six digits and z, h or /, or that is
\* out of calendar range, adds exactly one error and no Timestamp fact; a
\* well-formed field in range adds exactly one Timestamp fact and no error; in
\* both cases the position after it is decoded as it is without a timestamp.
C23_TimestampOrError ==
  (HasTimeField /\ msg.raised = "") =>
    /\ msg.message # None
    /\ TimestampDecoded(
         TimedFacts(msg.message[1], PayloadOf(Line)),
         msg.message[1].errors,
         msg.message[1].comment,
         IsCalendarTime(TimeFieldOf(PayloadOf(Line)),
                        IF TimeFieldOf(PayloadOf(Line))[7] = "/"
                        THEN fromtimestamp(msg.time, msg.offset)
                        ELSE utcfromtimestamp(msg.time),
                        ToInt(SubSeq(TimeFieldOf(PayloadOf(Line)), 1, 2)),
                        ToInt(SubSeq(TimeFieldOf(PayloadOf(Line)), 3, 4)),
                        ToInt(SubSeq(TimeFieldOf(PayloadOf(Line)), 5, 6))),
         _parse_position_and_symbol(<<>>, <<>>, PositionTextOf(PayloadOf(Line))))

\* C23 witness: an object report with day 32 in its timestamp field has been
\* decoded: one error, no Timestamp fact, and the Position fact of the position
\* after the field is there
C23_Witness ==
  /\ HasTimeField
  /\ PayloadOf(Line)[1] = ";"
  /\ TimeFieldOf(PayloadOf(Line)) = <<"3", "2", "2", "3", "4", "5", "z">>
  /\ msg.message # None
  /\ msg.message[1].errors = << <<"DHM/HMS timestamp invalid: ", "day is out of range for month">> >>
  /\ msg.message[1].facts[1].facts[1].type = "Position"
  /\ msg.message[1].facts[1].facts[3].type = "Velocity"

\* speed and course of the Mic-E bytes sp28, dc28 and se28 before the
\* reductions by 800 and by 400
UnreducedSpeed(sp28, dc28) == (sp28 - 28) * 10 + ((dc28 - 28) \div 10)

UnreducedCourse(dc28, se28) == ((dc28 - 28) % 10) + (se28 - 28)

Reduced(value, by) == IF value >= by THEN value - by ELSE value

\* the last operation decoded a Mic-E report to a message, and its speed and
\* course bytes are in 28..127
IsMicEInRange ==
  /\ IsMicE
  /\ msg.message # None
  /\ Len(PayloadOf(Line)) >= 9
  /\ Len(msg.message[1].destination) >= 6
  /\ \A i \in 5..7 : Ord(PayloadOf(Line)[i]) \in 28..127

\* facts holds exactly one Velocity fact, of the given speed and course, both
\* in their ranges
OneVelocity(facts, speed, course) ==
  /\ Cardinality({i \in 1..Len(facts) : facts[i].type = "Velocity"}) = 1
  /\ \E i \in 1..Len(facts) : facts[i] = Velocity(Rat(speed, 1), Rat(course, 1))
  /\ speed \in 0..799
  /\ course \in 0..399

\* C29: a Mic-E report with sp28, dc28 and se28 in 28..127 decodes to a
\* Velocity of speed (sp28-28)*10 + (dc28-28) div 10, less 800 when 800 or
\* more, within 0..799, and of course (dc28-28) mod 10 + (se28-28), less 400
\* when 400 or more, within 0..399; and there are bytes in 28..127 for which
\* the speed is reduced, and bytes in 28..127 for which the course is reduced.
C29_MicEVelocity ==
  IsMicEInRange =>
    /\ OneVelocity(msg.message[1].facts,
                   Reduced(UnreducedSpeed(Ord(PayloadOf(Line)[5]), Ord(PayloadOf(Line)[6])),
                           800),
                   Reduced(UnreducedCourse(Ord(PayloadOf(Line)[6]), Ord(PayloadOf(Line)[7])),
                           400))
    /\ \E sp28 \in 28..127, dc28 \in 28..127 : UnreducedSpeed(sp28, dc28) >= 800
    /\ \E dc28 \in 28..127, se28 \in 28..127 : UnreducedCourse(dc28, se28) >= 400

-----------------------------------------------------------------------------
(* More properties of the entities and the store, checked under Spec *)

\* fields a and b of the track are both absent, or both present with one timestamp
Together(track, a, b) ==
  /\ (track[a] = None) <=> (track[b] = None)
  /\ track[a] # None => track[a][1].timestamp = track[b][1].timestamp

\* C24: in every entity latitude and longitude are present together and carry
\* the same timestamp, and so are h_speed and track_angle; and every field of
\* a track is either as it was before the last operation or carries the
\* receive_time of the message that operation merged, so that every track
\* timestamp is the receive_time of a merged message.
C24_TrackPairs ==
  \A id \in DOMAIN store :
    /\ Together(store[id].track, "latitude", "longitude")
    /\ Together(store[id].track, "h_speed", "track_angle")
    /\ \A f \in DOMAIN store[id].track :
         \/ store[id].track[f] = None
         \/ id \in DOMAIN prev /\ prev[id].track[f] = store[id].track[f]
         \/ /\ msg.message # None
            /\ store[id].track[f][1].timestamp = msg.message[1].receive_time

\* C24 witness: an entity has merged a position at one time and a velocity at
\* another: both pairs are present, with different timestamps, and the altitude
\* is absent
C24_Witness ==
  \E id \in DOMAIN store :
    /\ store[id].track.latitude # None
    /\ store[id].track.longitude # None
    /\ store[id].track.h_speed # None
    /\ store[id].track.track_angle # None
    /\ store[id].track.altitude = None
    /\ store[id].track.latitude[1].timestamp # store[id].track.h_speed[1].timestamp

\* the last operation received a line with an object report and dispatched
\* its message
IsObjectDispatch ==
  /\ msg.phase = "received"
  /\ msg.message # None
  /\ InGrammar(Line)
  /\ Len(PayloadOf(Line)) >= 18
  /\ PayloadOf(Line)[1] = ";"
  /\ PayloadOf(Line)[11] \in {"*", "_"}

\* message m of the object report payload has one fact, the ObjectItemReport
\* of the payload's name, live for the marker '*', holding the nested facts
ObjectDecoded(m, payload) ==
  /\ Len(m.facts) = 1
  /\ m.facts[1].type = "ObjectItemReport"
  /\ m.facts[1].object
  /\ m.facts[1].name = SubSeq(payload, 2, 10)
  /\ m.facts[1].live <=> payload[11] = "*"
  /\ \A i \in 1..Len(m.facts[1].facts) :
       m.facts[1].facts[i].type \in
         {"Timestamp", "Position", "Symbol", "Velocity", "RadioRange", "Altitude"}
  /\ \E i \in 1..Len(m.facts[1].facts) : m.facts[1].facts[i].type = "Symbol"

\* entity e, which was b, took from message m its receive_time, its comment and
\* its errors, and nothing else
SenderUntouched(e, b, m) ==
  /\ e.track = b.track
  /\ e.status = b.status
  /\ e.symbol = b.symbol
  /\ e.address = b.address
  /\ e.last_heard_time = Some(m.receive_time)
  /\ e.last_comment = m.comment
  /\ e.last_parse_error = IF m.errors # <<>> THEN Join(m.errors) ELSE b.last_parse_error

\* C25 as stated: an object report decodes to one ObjectItemReport holding all
\* its facts, and its dispatch leaves the transmitting station's track, status
\* and symbol unchanged, updating only last_heard_time, last_comment and the
\* error.
C25_SenderUntouched ==
  IsObjectDispatch =>
    /\ ObjectDecoded(Message, PayloadOf(Line))
    /\ Message.source \in DOMAIN store
    /\ SenderUntouched(store[Message.source], Before(Message.source), Message)

\* C25 amended: the same when the object's name differs from the transmitting
\* station's id; when the station reports an object of its own name, the
\* station's entity merges the message and then the message synthesized for
\* the report, so the object's facts (or its kill) do reach the station.
C25_SenderUntouchedUnlessNamed ==
  IsObjectDispatch =>
    /\ ObjectDecoded(Message, PayloadOf(Line))
    /\ Message.source \in DOMAIN store
    /\ Message.facts[1].name # Message.source =>
         SenderUntouched(store[Message.source], Before(Message.source), Message)
    /\ Message.facts[1].name = Message.source =>
         store[Message.source] =
           receive(receive(Before(Message.source), Message),
                   Synthetic(Message, Message.facts[1]))

\* C25 witness: a station has reported a live object of its own name, and the
\* position and the symbol of the object are now the station's
C25_Witness ==
  /\ IsObjectDispatch
  /\ Message.facts[1].name = Message.source
  /\ Message.facts[1].live
  /\ Before(Message.source).track.latitude = None
  /\ store[Message.source].track.latitude # None
  /\ store[Message.source].symbol = <<"/", "l">>

\* the message carries a KillObject fact
HasKill(m) == \E i \in 1..Len(m.facts) : m.facts[i] = KillObject

\* the messages the last dispatch handed to the entity id, in order
MergesInto(id) == MessagesFor(Message, id, Len(Message.facts))

\* the entity id after the first k of them
EntityAt(id, k) == MergeAll(Before(id), SubSeq(MergesInto(id), 1, k))

\* track, status and symbol are the same in both entities
SameTrackStatusSymbol(a, b) ==
  a.track = b.track /\ a.status = b.status /\ a.symbol = b.symbol

\* the last heard time after merging m: its receive_time, or 0 when it carries
\* a KillObject fact
LastHeardAfter(m) == IF HasKill(m) THEN Some(0) ELSE Some(m.receive_time)

WithoutKill(m) == [m EXCEPT !.facts = SelectSeq(@, LAMBDA fact : fact # KillObject)]

-----------------------------------------------------------------------------
(* Properties of concurrent calls, checked under SpecCalls *)

\* message m with the contents of its lists in h put in place of the lists
Contents(h, m) ==
  [m EXCEPT
     !.facts = [k \in 1..Len(h[m.facts]) |->
                  IF h[m.facts][k].type = "ObjectItemReport"
                  THEN [h[m.facts][k] EXCEPT !.facts = h[@]]
                  ELSE h[m.facts][k]],
     !.errors = h[m.errors]]

\* the list objects message m holds
ListsOf(h, m) ==
  {m.facts, m.errors}
  \cup {h[m.facts][k].facts :
          k \in {j \in 1..Len(h[m.facts]) : h[m.facts][j].type = "ObjectItemReport"}}

\* the returned message r is, list contents included, what p says a call with
\* its line and receive_time returns
IsDecodingOf(h, r, p) == p.raised = "" /\ Contents(h, r.message) = p.message[1]

\* C18: decoding keeps no state between calls.  Every message parse_tnc2 has
\* returned is, and stays, what decoding its line at its receive_time gives,
\* whatever calls came before or run at the same time, and its facts and
\* errors lists are lists of that message alone.
C18_NoSharedState ==
  calls # <<>> =>
    /\ \A i \in 1..Len(calls.returned) :
         IsDecodingOf(heap, calls.returned[i],
                      parse_tnc2(calls.returned[i].line,
                                 calls.returned[i].message.receive_time, 0))
    /\ \A i \in 1..Len(calls.returned) :
         /\ calls.returned[i].message.facts # calls.returned[i].message.errors
         /\ \A j \in 1..Len(calls.returned) :
              i # j => ListsOf(heap, calls.returned[i].message)
                         \cap ListsOf(heap, calls.returned[j].message) = {}
         /\ \A c \in DOMAIN calls.running :
              calls.running[c].pc = "running" =>
                ListsOf(heap, calls.returned[i].message)
                  \cap {calls.running[c].ids[k] : k \in 1..Len(calls.running[c].ids)} = {}

\* C18 witness: a call that began after another call had begun has returned
\* its message, with a fact in it, while that other call, which has appended a
\* fact already, is still at work
C18_Witness ==
  /\ calls # <<>>
  /\ Len(calls.returned) = 1
  /\ heap[calls.returned[1].message.facts] # <<>>
  /\ \E c \in DOMAIN calls.running :
       /\ calls.running[c].pc = "running"
       /\ calls.running[c].todo # <<>>
       /\ Len(calls.running[c].ids) = 3
       /\ heap[calls.running[c].ids[3]] # <<>>
       /\ calls.running[c].ids[1] < calls.returned[1].message.facts

-----------------------------------------------------------------------------
(* Properties of the APRS-IS component, checked under SpecAPRSIS *)

\* the store after the callbacks of handled[1..n] have run in that order
RECURSIVE MergedInOrder(_, _)
MergedInOrder(handled, n) ==
  IF n = 0 THEN EmptyStore
  ELSE IF parse_tnc2(handled[n].line, handled[n].time, 0).raised = ""
       THEN StoreReceive(MergedInOrder(handled, n - 1),
                         parse_tnc2(handled[n].line, handled[n].time, 0).message[1])
       ELSE MergedInOrder(handled, n - 1)

\* the lines handed to the reactor, in the order their callbacks end, run and wait
CallbackOrder ==
  [k \in 1..Len(aprsis.handled) |-> aprsis.handled[k].line]
  \o (IF aprsis.running = None THEN <<>> ELSE <<aprsis.running[1].line>>)
  \o aprsis.queue

\* C19: a step of the reader thread leaves the store as it was and either
\* queues its line for the reactor or, after close, ends the thread; the store
\* changes only at the end of a reactor callback; callbacks run one at a time in
\* the order the lines were received; and the store is what merging the decoded
\* lines one after another in that order gives.
C19_ReaderNeverMutatesStore ==
  /\ msg.phase = "threaded" =>
       /\ store = prev
       /\ \/ aprsis.queue # <<>> /\ aprsis.queue[Len(aprsis.queue)] = msg.line[1]
          \/ aprsis.thread = "stopped" /\ ~aprsis.alive
  /\ store # prev => msg.phase = "merged" /\ aprsis.running = None
  /\ CallbackOrder = aprsis.received
  /\ store = MergedInOrder(aprsis.handled, Len(aprsis.handled))

\* C19 witness: the reader thread has just received a second line while the
\* reactor is inside the callback of the first, whose message decoded; the line
\* waits in the queue and the store is untouched
C19_Witness ==
  /\ msg.phase = "threaded"
  /\ aprsis.running # None
  /\ aprsis.running[1].p.raised = ""
  /\ aprsis.queue = <<msg.line[1]>>
  /\ aprsis.received = <<aprsis.running[1].line, msg.line[1]>>
  /\ store = prev

\* the reader thread has stopped exactly when it has dropped a line, which
\* happens at most once and only after close
StoppedByDroppedLine ==
  /\ aprsis.thread = "stopped" <=> aprsis.dropped # <<>>
  /\ Len(aprsis.dropped) <= 1
  /\ aprsis.dropped # <<>> => ~aprsis.alive

\* a step after close: the component stays closed and no line is handed to the
\* reactor any more; a line the thread is given is dropped and the thread
\* stops, with the queue and the store as they were; nothing else stops it
StepAfterClose ==
  /\ ~aprsis.alive =>
       /\ ~aprsis'.alive
       /\ aprsis'.received = aprsis.received
       /\ Len(aprsis'.queue) <= Len(aprsis.queue)
  /\ (aprsis.thread = "reading" /\ aprsis'.thread = "stopped") =>
       /\ ~aprsis.alive
       /\ msg'.phase = "threaded"
       /\ aprsis'.dropped = <<msg'.line[1]>>
       /\ aprsis'.queue = aprsis.queue
       /\ aprsis'.running = aprsis.running
       /\ store' = store
  /\ (~aprsis.alive /\ msg'.phase = "threaded") => aprsis'.thread = "stopped"
  /\ aprsis.thread = "stopped" => aprsis'.thread = "stopped"

\* C26: after close the reader thread keeps reading until the client delivers
\* one more line; on that line it stops without handing the line to the
\* reactor; and no line delivered after close is handed over, so that the lines
\* parsed and merged are lines received before close (the store remains the
\* merge of the handled lines, which were all received before).
C26_StopsOnNextLine ==
  /\ [](StoppedByDroppedLine
        /\ store = MergedInOrder(aprsis.handled, Len(aprsis.handled)))
  /\ [][StepAfterClose]_vars

\* C26 witness: a line received before close has been parsed and merged after
\* close, and the line delivered after close has stopped the thread and is in
\* neither the queue nor the store
C26_Witness ==
  /\ ~aprsis.alive
  /\ aprsis.thread = "stopped"
  /\ Len(aprsis.dropped) = 1
  /\ Len(aprsis.received) = 1
  /\ aprsis.dropped[1] # aprsis.received[1]
  /\ Len(aprsis.handled) = 1
  /\ aprsis.queue = <<>>
  /\ msg.phase = "merged"
  /\ store # EmptyStore

-----------------------------------------------------------------------------
(* Properties of the APRS demodulator, checked under SpecMultimon *)

IsAPRSLine(line) == StartsWith(line, <<"A", "P", "R", "S", ":", " ">>)

IsULTWLine(line) == StartsWith(line, <<"$", "U", "L", "T", "W">>)

\* the APRS lines before lines[i] with no APRS line and no $ULTW line between
\* them and lines[i]: none, or the one most recently delivered and not yet glued
OpenBefore(lines, i) ==
  {j \in 1..(i - 1) :
     /\ IsAPRSLine(lines[j])
     /\ \A k \in (j + 1)..(i - 1) : ~IsAPRSLine(lines[k]) /\ ~IsULTWLine(lines[k])}

\* what the target is given for lines[i]
DeliveryOf(lines, i) ==
  IF IsAPRSLine(lines[i]) THEN <<Drop(lines[i], 6)>>
  ELSE IF IsULTWLine(lines[i]) /\ OpenBefore(lines, i) # {}
  THEN <<Drop(lines[CHOOSE j \in OpenBefore(lines, i) : TRUE], 6) \o lines[i]>>
  ELSE <<>>

RECURSIVE DeliveriesOf(_, _)
DeliveriesOf(lines, n) ==
  IF n = 0 THEN <<>> ELSE DeliveriesOf(lines, n - 1) \o DeliveryOf(lines, n)

\* C27: over any sequence of output lines the target is given, in order, every
\* 'APRS: ' line once with the prefix removed, and every '$ULTW' line that is
\* the first one after an 'APRS: ' line, concatenated to that line; a further
\* '$ULTW' line, one with no APRS line before it, empty lines, 'Enabled
\* demodulators:' lines and all other lines are not given to it.
C27_GluedOnce ==
  multimon.delivered = DeliveriesOf(multimon.lines, Len(multimon.lines))

\* C27 witness: an APRS line, then two '$ULTW' lines: the target has been given
\* the APRS line and the APRS line with the first '$ULTW' line, and the second
\* '$ULTW' line has been received and not delivered
C27_Witness ==
  /\ Len(multimon.lines) = 3
  /\ IsAPRSLine(multimon.lines[1])
  /\ IsULTWLine(multimon.lines[2])
  /\ IsULTWLine(multimon.lines[3])
  /\ multimon.delivered = <<Drop(multimon.lines[1], 6),
                            Drop(multimon.lines[1], 6) \o multimon.lines[2]>>
  /\ multimon.last_line = None

\* C28: the squelch mode is always one of mute, monitor and ctcss, ctcss after
\* construction; the router matrix is [[0, 0]] for mute, [[0, 1]] for monitor
\* and [[1, 0]] for ctcss; and set_squelch with the current mode changes
\* nothing.
C28_RouterFollowsSquelch ==
  /\ multimon.squelch_mode \in {Some("mute"), Some("monitor"), Some("ctcss")}
  /\ multimon.router = [mute |-> << <<0, 0>> >>, monitor |-> << <<0, 1>> >>,
                        ctcss |-> << <<1, 0>> >>][multimon.squelch_mode[1]]
  /\ msg.phase = "idle" => multimon.squelch_mode = Some("ctcss")
  /\ (msg.phase = "set_squelch" /\ Some(msg.value) = msg.before.squelch_mode) =>
       multimon = msg.before

\* C28 witness: the mode has been set from mute to monitor, and the router
\* passes the second input only
C28_Witness ==
  /\ msg.phase = "set_squelch"
  /\ msg.value = "monitor"
  /\ msg.before.squelch_mode = Some("mute")
  /\ msg.before.router = << <<0, 0>> >>
  /\ multimon.squelch_mode = Some("monitor")
  /\ multimon.router = << <<0, 1>> >>

-----------------------------------------------------------------------------
(* Properties of one entity, checked under SpecEntity *)

\* C12: in every state of an entity, from construction on, get_object_expiry
\* returns last_heard_time + 1800 without raising and is_interesting returns
\* true.
C12_ExpiryNeverRaises ==
  msg.phase = "queried" =>
    \A id \in DOMAIN store :
      /\ msg.raised = ""
      /\ store[id].last_heard_time # None
      /\ msg.expiry = Some(store[id].last_heard_time[1] + 1800)
      /\ msg.interesting

=============================================================================
